---- MODULE Spec2Model ----
(***************************************************************************)
(* Aircraft tracker: the persistent record store (JSONStorage, CSVStorage) *)
(* behind BaseStorage, and the Aircraft record it stores.                  *)
(*                                                                         *)
(* Both backends are driven in lockstep: every public call is applied to   *)
(* the JSON file and to the CSV file, and the two results are recorded.    *)
(*                                                                         *)
(* Numbers.  Python floats are modelled as integers in a fixed unit per    *)
(* field: velocity, altitude and vertical_rate in thousandths (280456 is   *)
(* 280.456), longitude and latitude in units of 10^-7 (371234567 is        *)
(* 37.1234567).  A CSV cell written with f"{x:.2f}" or f"{x:.6f}" keeps    *)
(* one decimal digit less than the unit, so formatting rounds.             *)
(***************************************************************************)
EXTENDS Integers, Sequences, FiniteSets, TLC

(* ----------------------------- bounds ---------------------------------- *)

\* Longest list handed to add_multiple_aircraft.
MaxBatch == 2

\* Most faults of the file system in one run of SpecFault or SpecDamage.
MaxFaults == 2

\* Largest n handed to get_top_by_altitude.
MaxTop == 3

(* ------------------------- Python values ------------------------------- *)

\* A Python value: None, a bool, a float, or a str.  A str is either plain
\* text (d = 0, s its characters) or a decimal numeral (s = "#", n its digits
\* without the point, d the number of digits after the point).
PyNone == [t |-> "none", s |-> "", n |-> 0, d |-> 0]

PyStr(x) == [t |-> "str", s |-> x, n |-> 0, d |-> 0]

PyNum(x) == [t |-> "num", s |-> "", n |-> x, d |-> 0]

PyBool(b) == [t |-> "bool", s |-> "", n |-> IF b THEN 1 ELSE 0, d |-> 0]

DecText(x, places) == [t |-> "str", s |-> "#", n |-> x, d |-> places]

\* An int above the range of float (10 ** 400).
PyBigInt == [t |-> "bigint", s |-> "", n |-> 0, d |-> 0]

\* The NotImplemented singleton.
NotImplemented == [t |-> "NotImplemented", s |-> "", n |-> 0, d |-> 0]

\* bool(v): None, False, 0.0 and "" are falsy.
Truthy(v) ==
    CASE v.t = "none" -> FALSE
      [] v.t = "bool" -> v.n = 1
      [] v.t = "num"  -> v.n # 0
      [] v.t = "bigint" -> TRUE
      [] OTHER        -> v.s # ""

\* a == b on the values above (a bool is never compared with a number here).
PyEq(a, b) == a = b

\* str.strip() on the texts that occur.
Strip(x) ==
    CASE x = "  "  -> ""
      [] x = " A " -> "A"
      [] OTHER     -> x

\* str.lower() on the texts that occur.
Lower(x) ==
    CASE x = "True"  -> "true"
      [] x = "False" -> "false"
      [] x = "TRUE"  -> "true"
      [] OTHER       -> x

\* float(v): the number, or the exception float() raises.
PyFloat(v) ==
    CASE v.t = "num"  -> [exc |-> "", n |-> v.n]
      [] v.t = "none" -> [exc |-> "TypeError", n |-> 0]
      [] v.t = "bool" -> [exc |-> "", n |-> v.n * 1000]
      [] v.t = "bigint" -> [exc |-> "OverflowError", n |-> 0]
      [] OTHER        -> IF v.s = "#"
                         THEN [exc |-> "", n |-> v.n * 10]
                         ELSE [exc |-> "ValueError", n |-> 0]

\* n / 10 rounded to the nearest integer, ties to even: the digits that
\* f"{x:.2f}" (x in thousandths) and f"{x:.6f}" (x in 10^-7) print.
RoundDiv10(n) ==
    LET q == n \div 10
        r == n % 10
    IN  IF r < 5 THEN q
        ELSE IF r > 5 THEN q + 1
        ELSE IF q % 2 = 0 THEN q ELSE q + 1

\* f"{v:.<places>f}": the numeral, or TypeError for a value with no float
\* format.
Format(v, places) ==
    IF v.t = "num"
    THEN [exc |-> "", v |-> DecText(RoundDiv10(v.n), places)]
    ELSE [exc |-> "TypeError", v |-> PyNone]

\* str(v) for on_ground.
PyStrOf(v) ==
    CASE v.t = "bool" -> PyStr(IF v.n = 1 THEN "True" ELSE "False")
      [] v.t = "none" -> PyStr("None")
      [] OTHER        -> v

(* ------------------------------ Aircraft ------------------------------- *)

FieldNames ==
    {"callsign", "origin_country", "velocity", "altitude", "icao24",
     "longitude", "latitude", "on_ground", "vertical_rate"}

NumericKeys == {"velocity", "altitude", "longitude", "latitude", "vertical_rate"}

_validate_callsign(v) ==
    IF ~Truthy(v) \/ v.t # "str" THEN PyStr("Unknown") ELSE PyStr(Strip(v.s))

_validate_country(v) ==
    IF ~Truthy(v) \/ v.t # "str" THEN PyStr("Unknown") ELSE PyStr(Strip(v.s))

_validate_velocity(v) ==
    LET f == PyFloat(v)
    IN  IF f.exc # "" THEN PyNum(0)
        ELSE PyNum(IF f.n > 0 THEN f.n ELSE 0)

\* A validation that lets every altitude through.
_validate_altitude_unbounded(v) ==
    LET f == PyFloat(v)
    IN  IF f.exc # "" THEN PyNum(0) ELSE PyNum(f.n)

_validate_altitude(v) ==
    LET f == PyFloat(v)
    IN  IF f.exc # "" THEN PyNum(0)
        ELSE PyNum(IF f.n > -1000000 THEN f.n ELSE -1000000)

\* The exception of float(v) that _validate_velocity and _validate_altitude
\* do not catch ("" when there is none): they catch TypeError and ValueError.
ValidateExc(v) ==
    IF PyFloat(v).exc \in {"", "TypeError", "ValueError"} THEN "" ELSE PyFloat(v).exc

\* dict.get(key, default)
Get(m, key, default) == IF key \in DOMAIN m THEN m[key] ELSE default

\* Aircraft(callsign, origin_country, velocity, altitude, **kw)
Aircraft(callsign, origin_country, velocity, altitude, kw) ==
    [callsign       |-> _validate_callsign(callsign),
     origin_country |-> _validate_country(origin_country),
     velocity       |-> _validate_velocity(velocity),
     altitude       |-> _validate_altitude(altitude),
     icao24         |-> Get(kw, "icao24", PyStr("Unknown")),
     longitude      |-> Get(kw, "longitude", PyNum(0)),
     latitude       |-> Get(kw, "latitude", PyNum(0)),
     on_ground      |-> Get(kw, "on_ground", PyBool(TRUE)),
     vertical_rate  |-> Get(kw, "vertical_rate", PyNum(0))]

\* Aircraft.to_dict: the nine attributes under their names.
to_dict(a) == [k \in FieldNames |-> a[k]]

\* Aircraft.from_dict: tolerant of missing keys.
from_dict(data) ==
    Aircraft(Get(data, "callsign", PyStr("Unknown")),
             Get(data, "origin_country", PyStr("Unknown")),
             Get(data, "velocity", PyNum(0)),
             Get(data, "altitude", PyNum(0)),
             [k \in {"icao24", "longitude", "latitude", "on_ground",
                     "vertical_rate"} |->
                CASE k = "icao24"    -> Get(data, "icao24", PyStr("Unknown"))
                  [] k = "on_ground" -> Get(data, "on_ground", PyBool(TRUE))
                  [] OTHER           -> Get(data, k, PyNum(0))])

cast_to_object_list(data_list) ==
    [i \in 1..Len(data_list) |-> from_dict(data_list[i])]

\* The exception that escapes Aircraft(callsign, origin_country, velocity,
\* altitude, ...), "" when the object is built.
AircraftExc(velocity, altitude) ==
    IF ValidateExc(velocity) # "" THEN ValidateExc(velocity) ELSE ValidateExc(altitude)

\* The exception that escapes Aircraft.from_dict(data).
from_dict_exc(data) ==
    AircraftExc(Get(data, "velocity", PyNum(0)), Get(data, "altitude", PyNum(0)))

\* isinstance(x, Aircraft)
IsAircraft(x) == "callsign" \in DOMAIN x

\* The velocity setter: the object after `a.velocity = value`.
velocity_setter(a, value) == [a EXCEPT !.velocity = _validate_velocity(value)]

\* The altitude setter: the object after `a.altitude = value`.
altitude_setter(a, value) == [a EXCEPT !.altitude = _validate_altitude(value)]

\* abs(x)
Abs(x) == IF x < 0 THEN -x ELSE x

\* The 0.1 of __eq__, in thousandths.
VelocityTolerance == 100

\* The 1.0 of __eq__, in thousandths.
AltitudeTolerance == 1000

\* A less-than that looks at the altitude.
__lt__by_altitude(self, other) ==
    IF ~IsAircraft(other) THEN NotImplemented
    ELSE PyBool(self.altitude.n < other.altitude.n)

__lt__(self, other) ==
    IF ~IsAircraft(other) THEN NotImplemented
    ELSE PyBool(self.velocity.n < other.velocity.n)

__le__(self, other) ==
    IF ~IsAircraft(other) THEN NotImplemented
    ELSE PyBool(self.velocity.n <= other.velocity.n)

__gt__(self, other) ==
    IF ~IsAircraft(other) THEN NotImplemented
    ELSE PyBool(self.velocity.n > other.velocity.n)

__ge__(self, other) ==
    IF ~IsAircraft(other) THEN NotImplemented
    ELSE PyBool(self.velocity.n >= other.velocity.n)

\* An equality whose tolerances include their bound.
__eq__inclusive(self, other) ==
    IF ~IsAircraft(other) THEN PyBool(FALSE)
    ELSE PyBool(/\ self.callsign = other.callsign
                /\ self.origin_country = other.origin_country
                /\ Abs(self.velocity.n - other.velocity.n) <= VelocityTolerance
                /\ Abs(self.altitude.n - other.altitude.n) <= AltitudeTolerance)

__eq__(self, other) ==
    IF ~IsAircraft(other) THEN PyBool(FALSE)
    ELSE PyBool(/\ self.callsign = other.callsign
                /\ self.origin_country = other.origin_country
                /\ Abs(self.velocity.n - other.velocity.n) < VelocityTolerance
                /\ Abs(self.altitude.n - other.altitude.n) < AltitudeTolerance)

higher_than(self, other) ==
    IF ~IsAircraft(other) THEN NotImplemented
    ELSE PyBool(self.altitude.n > other.altitude.n)

faster_than(self, other) ==
    IF ~IsAircraft(other) THEN NotImplemented
    ELSE PyBool(self.velocity.n > other.velocity.n)

(* ---------------------------- call results ----------------------------- *)

\* What a public call ends with: a bool, an int, a list of Aircraft, or an
\* exception that escapes the call.
RetBool(x) == [k |-> "bool", b |-> x, n |-> 0, l |-> <<>>, e |-> ""]

RetInt(x) == [k |-> "int", b |-> FALSE, n |-> x, l |-> <<>>, e |-> ""]

RetList(x) == [k |-> "list", b |-> FALSE, n |-> 0, l |-> x, e |-> ""]

Raise(x) == [k |-> "raise", b |-> FALSE, n |-> 0, l |-> <<>>, e |-> x]

\* No call made yet.
NoRet == [k |-> "none", b |-> FALSE, n |-> 0, l |-> <<>>, e |-> ""]

\* The least index at which the sequence of booleans hit is TRUE, 0 when there
\* is none (a for loop that stops at its first hit).
FirstIndex(hit) ==
    IF \E i \in 1..Len(hit) : hit[i]
    THEN CHOOSE i \in 1..Len(hit) : hit[i] /\ \A j \in 1..(i - 1) : ~hit[j]
    ELSE 0

\* For each stored mapping of data, whether its callsign equals callsign.
HasCallsign(data, callsign) ==
    [i \in 1..Len(data) |-> PyEq(Get(data[i], "callsign", PyNone), callsign)]

\* The list with a put behind the elements at least as high as a: one step
\* of a stable sort by altitude, highest first.
InsertByAltitude(sorted_aircraft, a) ==
    LET k == Cardinality({i \in 1..Len(sorted_aircraft) :
                             sorted_aircraft[i].altitude.n >= a.altitude.n})
    IN  SubSeq(sorted_aircraft, 1, k) \o <<a>>
            \o SubSeq(sorted_aircraft, k + 1, Len(sorted_aircraft))

\* A sort by altitude, lowest first.
RECURSIVE SortedByAltitudeAscending(_)
SortedByAltitudeAscending(aircraft_list) ==
    IF aircraft_list = <<>> THEN <<>>
    ELSE LET rest == SortedByAltitudeAscending(
                         SubSeq(aircraft_list, 1, Len(aircraft_list) - 1))
             a    == aircraft_list[Len(aircraft_list)]
             k    == Cardinality({i \in 1..Len(rest) : rest[i].altitude.n <= a.altitude.n})
         IN  SubSeq(rest, 1, k) \o <<a>> \o SubSeq(rest, k + 1, Len(rest))

\* sorted(aircraft_list, key=lambda a: a.altitude, reverse=True)
RECURSIVE SortedByAltitude(_)
SortedByAltitude(aircraft_list) ==
    IF aircraft_list = <<>> THEN <<>>
    ELSE InsertByAltitude(
             SortedByAltitude(SubSeq(aircraft_list, 1, Len(aircraft_list) - 1)),
             aircraft_list[Len(aircraft_list)])

\* seq[:n] for n >= 0
Slice(seq, n) == SubSeq(seq, 1, IF n < Len(seq) THEN n ELSE Len(seq))

(* ------------------------------ JSONStorage ---------------------------- *)

\* The JSON backing file.  kind: "array" (a JSON array of mappings, items),
\* "missing", "unreadable", "empty" (zero bytes), "garbage" (not JSON),
\* "object" (the single mapping {"callsign": "A"} at top level) or "number"
\* (the document 5), or "nodir" (the containing directory is missing too).
JsonFile(kind, items) == [kind |-> kind, items |-> items]

\* json.load of the file: the Python object (py: "list", "dict", "int"), or
\* the exception that escapes _load_data.
JSON_load_data(f) ==
    CASE f.kind = "array"      -> [exc |-> "", py |-> "list", items |-> f.items]
      [] f.kind = "object"     -> [exc |-> "", py |-> "dict", items |-> <<>>]
      [] f.kind = "number"     -> [exc |-> "", py |-> "int", items |-> <<>>]
      [] f.kind = "unreadable" -> [exc |-> "PermissionError", py |-> "", items |-> <<>>]
      [] OTHER                 -> [exc |-> "", py |-> "list", items |-> <<>>]

\* _save_data: json.dump of the object over the file; False (file untouched)
\* when open(..., "w") raises IOError.
JSON_save_data(f, w, py, items) ==
    IF ~w \/ f.kind = "nodir" THEN [file |-> f, ok |-> FALSE]
    ELSE [file |-> CASE py = "list" -> JsonFile("array", items)
                     [] py = "dict" -> JsonFile("object", <<>>)
                     [] OTHER       -> JsonFile("number", <<>>),
          ok |-> TRUE]

\* The exception of `for existing in data: existing.get(...)` when data is
\* not a list of mappings.
JsonIterExc(py) == IF py = "int" THEN "TypeError" ELSE "AttributeError"

\* A merge that keeps the fields the stored mapping already has.
DictUpdateKeepOld(existing, d) ==
    [k \in (DOMAIN existing) \cup (DOMAIN d) |->
        IF k \in DOMAIN existing THEN existing[k] ELSE d[k]]

\* existing.update(aircraft_dict)
DictUpdate(existing, d) ==
    [k \in (DOMAIN existing) \cup (DOMAIN d) |->
        IF k \in DOMAIN d THEN d[k] ELSE existing[k]]

\* An upsert that never looks for the callsign.
JsonUpsertAppendOnly(data, a) == Append(data, to_dict(a))

\* One pass of the upsert loop over data: first match updated, else appended.
JsonUpsert(data, a) ==
    LET i == FirstIndex(HasCallsign(data, a.callsign))
    IN  IF i > 0
        THEN [data EXCEPT ![i] = DictUpdate(@, to_dict(a))]
        ELSE Append(data, to_dict(a))

JSON_add_aircraft(f, w, a) ==
    LET ld == JSON_load_data(f)
    IN  IF ld.exc # "" THEN [file |-> f, ret |-> Raise(ld.exc)]
        ELSE IF ld.py # "list" THEN [file |-> f, ret |-> Raise(JsonIterExc(ld.py))]
        ELSE LET sv == JSON_save_data(f, w, "list", JsonUpsert(ld.items, a))
             IN  [file |-> sv.file, ret |-> RetBool(sv.ok)]

\* A loop that counts the appended records only.
RECURSIVE JsonAddAllInserted(_, _, _)
JsonAddAllInserted(data, added_count, aircraft_list) ==
    IF aircraft_list = <<>> THEN [data |-> data, added_count |-> added_count]
    ELSE JsonAddAllInserted(
             JsonUpsert(data, Head(aircraft_list)),
             IF Len(JsonUpsert(data, Head(aircraft_list))) > Len(data)
             THEN added_count + 1 ELSE added_count,
             Tail(aircraft_list))

\* The loop of add_multiple_aircraft: data and added_count after the list.
RECURSIVE JsonAddAll(_, _, _)
JsonAddAll(data, added_count, aircraft_list) ==
    IF aircraft_list = <<>> THEN [data |-> data, added_count |-> added_count]
    ELSE JsonAddAll(JsonUpsert(data, Head(aircraft_list)), added_count + 1,
                    Tail(aircraft_list))

JSON_add_multiple_aircraft(f, w, aircraft_list) ==
    LET ld == JSON_load_data(f)
    IN  IF ld.exc # "" THEN [file |-> f, ret |-> Raise(ld.exc)]
        ELSE IF ld.py # "list"
        THEN IF aircraft_list = <<>>
             THEN [file |-> JSON_save_data(f, w, ld.py, <<>>).file, ret |-> RetInt(0)]
             ELSE [file |-> f, ret |-> Raise(JsonIterExc(ld.py))]
        ELSE LET r  == JsonAddAll(ld.items, 0, aircraft_list)
                 sv == JSON_save_data(f, w, "list", r.data)
             IN  [file |-> sv.file, ret |-> RetInt(r.added_count)]

\* Criteria: None, or a dict given as the sequence of its (key, value) pairs
\* in insertion order.
NoCriteria == [none |-> TRUE, kv |-> <<>>]

Criteria(kv) == [none |-> FALSE, kv |-> kv]

\* The inner loop of get_aircraft: every pair matches the item.
JsonMatch(item, kv) ==
    \A i \in 1..Len(kv) :
        kv[i].key \in DOMAIN item /\ PyEq(item[kv[i].key], kv[i].value)

JSON_get_aircraft(f, criteria) ==
    LET ld == JSON_load_data(f)
    IN  IF ld.exc # "" THEN Raise(ld.exc)
        ELSE IF criteria.none \/ criteria.kv = <<>>
        THEN IF ld.py = "list" THEN RetList(cast_to_object_list(ld.items))
             ELSE Raise(JsonIterExc(ld.py))
        ELSE IF ld.py = "int" THEN Raise("TypeError")
        ELSE IF ld.py = "dict"
        \* item is the str "callsign": `key not in item` is a substring test,
        \* item[key] a TypeError.
        THEN IF criteria.kv[1].key = "callsign" THEN Raise("TypeError")
             ELSE RetList(<<>>)
        ELSE RetList(cast_to_object_list(
                 SelectSeq(ld.items, LAMBDA item : JsonMatch(item, criteria.kv))))

JSON_get_all(f) ==
    LET ld == JSON_load_data(f)
    IN  IF ld.exc # "" THEN Raise(ld.exc)
        ELSE IF ld.py # "list" THEN Raise(JsonIterExc(ld.py))
        ELSE RetList(cast_to_object_list(ld.items))

\* get_top_by_altitude(n), n >= 0
JSON_get_top_by_altitude(f, n) ==
    LET aircraft_list == JSON_get_all(f)
    IN  IF aircraft_list.k = "raise" THEN aircraft_list
        ELSE RetList(Slice(SortedByAltitude(aircraft_list.l), n))

\* A constructor that writes [] whatever is at the path.
JSON_init_overwrite(f, w) ==
    [file |-> JSON_save_data(JsonFile("missing", <<>>), w, "list", <<>>).file,
     ret |-> NoRet]

\* JSONStorage(file_path): _ensure_file_exists makes the directory and, for a
\* path that does not exist, saves [] (a failed save is ignored).
JSON_init(f, w) ==
    IF f.kind \in {"nodir", "missing"}
    THEN [file |-> JSON_save_data(JsonFile("missing", <<>>), w, "list", <<>>).file,
          ret |-> NoRet]
    ELSE [file |-> f, ret |-> NoRet]

\* get_aircraft_by_country(country)
JSON_get_aircraft_by_country(f, country) ==
    JSON_get_aircraft(f, [none |-> FALSE,
                          kv |-> <<[key |-> "origin_country", value |-> country]>>])

\* A delete_aircraft that empties the file when no record has the callsign.
JSON_delete_aircraft_emptying(f, w, callsign) ==
    LET ld == JSON_load_data(f)
    IN  IF ld.exc # "" THEN [file |-> f, ret |-> Raise(ld.exc)]
        ELSE IF ld.py # "list" THEN [file |-> f, ret |-> Raise(JsonIterExc(ld.py))]
        ELSE LET new_data ==
                     SelectSeq(ld.items,
                               LAMBDA item : ~PyEq(Get(item, "callsign", PyNone), callsign))
                 sv == JSON_save_data(f, w, "list",
                                      IF Len(new_data) < Len(ld.items) THEN new_data
                                      ELSE <<>>)
             IN  [file |-> sv.file, ret |-> RetBool(Len(new_data) < Len(ld.items) /\ sv.ok)]

JSON_delete_aircraft(f, w, callsign) ==
    LET ld == JSON_load_data(f)
    IN  IF ld.exc # "" THEN [file |-> f, ret |-> Raise(ld.exc)]
        ELSE IF ld.py # "list" THEN [file |-> f, ret |-> Raise(JsonIterExc(ld.py))]
        ELSE LET new_data ==
                     SelectSeq(ld.items,
                               LAMBDA item : ~PyEq(Get(item, "callsign", PyNone), callsign))
             IN  IF Len(new_data) < Len(ld.items)
                 THEN LET sv == JSON_save_data(f, w, "list", new_data)
                      IN  [file |-> sv.file, ret |-> RetBool(sv.ok)]
                 ELSE [file |-> f, ret |-> RetBool(FALSE)]

JSON_clear(f, w) ==
    LET sv == JSON_save_data(f, w, "list", <<>>)
    IN  [file |-> sv.file, ret |-> RetBool(sv.ok)]

\* len(self._load_data()): a list's length, the dict's one key, TypeError
\* for a number.
JSON_count(f) ==
    LET ld == JSON_load_data(f)
    IN  IF ld.exc # "" THEN Raise(ld.exc)
        ELSE IF ld.py = "int" THEN Raise("TypeError")
        ELSE IF ld.py = "dict" THEN RetInt(1)
        ELSE RetInt(Len(ld.items))

(* ------------------------------ CSVStorage ----------------------------- *)

\* The CSV backing file.  kind: "table" (the nine-column header row, then
\* rows: each a mapping from the nine field names to the cell's text, None
\* for a cell a truncated line does not have), "missing", "unreadable" or
\* "empty" (zero bytes), or "nodir" (the containing directory is missing too).
CsvFile(kind, rows) == [kind |-> kind, rows |-> rows]

\* The first exception among the results rs (in evaluation order), "" if none.
FirstExc(rs) ==
    LET i == FirstIndex([k \in 1..Len(rs) |-> rs[k].exc # ""])
    IN  IF i > 0 THEN rs[i].exc ELSE ""

\* _aircraft_to_row: the row of texts, or the TypeError of formatting a
\* value that is no number.
_aircraft_to_row(a) ==
    LET velocity      == Format(a.velocity, 2)
        altitude      == Format(a.altitude, 2)
        longitude     == Format(a.longitude, 6)
        latitude      == Format(a.latitude, 6)
        vertical_rate == Format(a.vertical_rate, 2)
    IN  [exc |-> FirstExc(<<velocity, altitude, longitude, latitude, vertical_rate>>),
         row |-> [callsign       |-> a.callsign,
                  origin_country |-> a.origin_country,
                  velocity       |-> velocity.v,
                  altitude       |-> altitude.v,
                  icao24         |-> a.icao24,
                  longitude      |-> longitude.v,
                  latitude       |-> latitude.v,
                  on_ground      |-> PyStrOf(a.on_ground),
                  vertical_rate  |-> vertical_rate.v]]

\* row['on_ground'].lower() == 'true', AttributeError on None.
LowerIsTrue(v) ==
    IF v.t = "none" THEN [exc |-> "AttributeError", n |-> 0]
    ELSE [exc |-> "", n |-> IF Lower(v.s) = "true" THEN 1 ELSE 0]

\* _row_to_aircraft: the Aircraft of a row, or the first exception of its
\* conversions.
_row_to_aircraft(row) ==
    LET velocity      == PyFloat(row["velocity"])
        altitude      == PyFloat(row["altitude"])
        longitude     == PyFloat(row["longitude"])
        latitude      == PyFloat(row["latitude"])
        on_ground     == LowerIsTrue(row["on_ground"])
        vertical_rate == PyFloat(row["vertical_rate"])
    IN  [exc |-> FirstExc(<<velocity, altitude, longitude, latitude, on_ground,
                            vertical_rate>>),
         a   |-> Aircraft(row["callsign"], row["origin_country"],
                          PyNum(velocity.n), PyNum(altitude.n),
                          [icao24        |-> row["icao24"],
                           longitude     |-> PyNum(longitude.n),
                           latitude      |-> PyNum(latitude.n),
                           on_ground     |-> PyBool(on_ground.n = 1),
                           vertical_rate |-> PyNum(vertical_rate.n)])]

\* any(row.values())
AnyCell(row) == \E k \in DOMAIN row : Truthy(row[k])

\* _load_data: the rows csv.DictReader yields, blank rows skipped; a missing
\* or empty file has none; PermissionError escapes.
CSV_load_data(f) ==
    CASE f.kind = "table"      -> [exc |-> "", data |-> SelectSeq(f.rows, AnyCell)]
      [] f.kind = "unreadable" -> [exc |-> "PermissionError", data |-> <<>>]
      [] OTHER                 -> [exc |-> "", data |-> <<>>]

\* The text csv.DictWriter writes for a cell: None as the empty text.
WrittenCell(v) == IF v.t = "none" THEN PyStr("") ELSE v

\* _save_data: header and rows over the file (header alone for no data);
\* False (file untouched) when open(..., 'w') raises IOError.
CSV_save_data(f, w, data) ==
    IF ~w \/ f.kind = "nodir" THEN [file |-> f, ok |-> FALSE]
    ELSE [file |-> CsvFile("table",
                           [i \in 1..Len(data) |->
                               [k \in DOMAIN data[i] |-> WrittenCell(data[i][k])]]),
          ok |-> TRUE]

\* An add_aircraft that appends without looking for the callsign.
CSV_add_aircraft_append(f, w, a) ==
    LET ld      == CSV_load_data(f)
        new_row == _aircraft_to_row(a)
    IN  IF ld.exc # "" THEN [file |-> f, ret |-> Raise(ld.exc)]
        ELSE IF new_row.exc # "" THEN [file |-> f, ret |-> Raise(new_row.exc)]
        ELSE LET sv == CSV_save_data(f, w, Append(ld.data, new_row.row))
             IN  [file |-> sv.file, ret |-> RetBool(sv.ok)]

CSV_add_aircraft(f, w, a) ==
    LET ld      == CSV_load_data(f)
        new_row == _aircraft_to_row(a)
    IN  IF ld.exc # "" THEN [file |-> f, ret |-> Raise(ld.exc)]
        ELSE IF new_row.exc # "" THEN [file |-> f, ret |-> Raise(new_row.exc)]
        ELSE LET i  == FirstIndex(HasCallsign(ld.data, a.callsign))
                 sv == CSV_save_data(f, w,
                                     IF i > 0 THEN [ld.data EXCEPT ![i] = new_row.row]
                                     ELSE Append(ld.data, new_row.row))
             IN  [file |-> sv.file, ret |-> RetBool(sv.ok)]

\* existing_dict = {row['callsign']: i for i, row in enumerate(data)}: the
\* last row of a callsign wins.
ExistingDict(data) ==
    [c \in {data[i]["callsign"] : i \in 1..Len(data)} |->
        CHOOSE i \in 1..Len(data) :
            /\ data[i]["callsign"] = c
            /\ \A j \in (i + 1)..Len(data) : data[j]["callsign"] # c]

\* The loop of add_multiple_aircraft: data, existing_dict and added_count
\* after the list, or the exception of the first row that cannot be formatted.
RECURSIVE CsvAddAll(_, _, _, _)
CsvAddAll(data, existing_dict, added_count, aircraft_list) ==
    IF aircraft_list = <<>>
    THEN [exc |-> "", data |-> data, added_count |-> added_count]
    ELSE LET aircraft == Head(aircraft_list)
             new_row  == _aircraft_to_row(aircraft)
         IN  IF new_row.exc # ""
             THEN [exc |-> new_row.exc, data |-> data, added_count |-> added_count]
             ELSE IF aircraft.callsign \in DOMAIN existing_dict
             THEN CsvAddAll([data EXCEPT ![existing_dict[aircraft.callsign]] = new_row.row],
                            existing_dict, added_count + 1, Tail(aircraft_list))
             ELSE CsvAddAll(Append(data, new_row.row),
                            [c \in (DOMAIN existing_dict) \cup {aircraft.callsign} |->
                                IF c = aircraft.callsign THEN Len(data) + 1
                                ELSE existing_dict[c]],
                            added_count + 1, Tail(aircraft_list))

CSV_add_multiple_aircraft(f, w, aircraft_list) ==
    IF aircraft_list = <<>> THEN [file |-> f, ret |-> RetInt(0)]
    ELSE LET ld == CSV_load_data(f)
         IN  IF ld.exc # "" THEN [file |-> f, ret |-> Raise(ld.exc)]
             ELSE LET r == CsvAddAll(ld.data, ExistingDict(ld.data), 0, aircraft_list)
                  IN  IF r.exc # "" THEN [file |-> f, ret |-> Raise(r.exc)]
                      ELSE [file |-> CSV_save_data(f, w, r.data).file,
                            ret  |-> RetInt(r.added_count)]

\* The stored text of a criteria key, coerced to the key's type.
CsvCoerce(key, row_value) ==
    IF key \in NumericKeys
    THEN IF Truthy(row_value) /\ PyFloat(row_value).exc = ""
         THEN PyNum(PyFloat(row_value).n)
         ELSE PyNum(0)
    ELSE IF key = "on_ground"
    THEN IF Truthy(row_value) THEN PyBool(Lower(row_value.s) = "true")
         ELSE PyBool(FALSE)
    ELSE row_value

\* The inner loop of get_aircraft: every pair matches the row.
CsvMatch(row, kv) ==
    \A i \in 1..Len(kv) :
        PyEq(CsvCoerce(kv[i].key, Get(row, kv[i].key, PyNone)), kv[i].value)

\* The Aircraft of the rows, or the exception of the first row that cannot be
\* converted.
CsvRowsToAircraft(rows) ==
    LET rs == [i \in 1..Len(rows) |-> _row_to_aircraft(rows[i])]
    IN  IF FirstExc(rs) # "" THEN Raise(FirstExc(rs))
        ELSE RetList([i \in 1..Len(rs) |-> rs[i].a])

CSV_get_aircraft(f, criteria) ==
    LET ld == CSV_load_data(f)
    IN  IF ld.exc # "" THEN Raise(ld.exc)
        ELSE IF criteria.none \/ criteria.kv = <<>>
        THEN CsvRowsToAircraft(ld.data)
        ELSE CsvRowsToAircraft(
                 SelectSeq(ld.data, LAMBDA row : CsvMatch(row, criteria.kv)))

CSV_get_all(f) == CSV_get_aircraft(f, NoCriteria)

\* get_aircraft_by_country(country)
CSV_get_aircraft_by_country(f, country) ==
    CSV_get_aircraft(f, [none |-> FALSE,
                         kv |-> <<[key |-> "origin_country", value |-> country]>>])

\* get_top_by_altitude(n), n >= 0
CSV_get_top_by_altitude(f, n) ==
    LET aircraft_list == CSV_get_all(f)
    IN  IF aircraft_list.k = "raise" THEN aircraft_list
        ELSE RetList(Slice(SortedByAltitude(aircraft_list.l), n))

\* CSVStorage(file_path): _ensure_file_exists makes the directory and, for a
\* path that does not exist, writes the header row; the open is not guarded.
CSV_init(f, w) ==
    IF f.kind \in {"nodir", "missing"}
    THEN IF w THEN [file |-> CsvFile("table", <<>>), ret |-> NoRet]
         ELSE [file |-> CsvFile("missing", <<>>), ret |-> Raise("PermissionError")]
    ELSE [file |-> f, ret |-> NoRet]

\* A delete_aircraft whose filter keeps the rows of the callsign.
CSV_delete_aircraft_keep(f, w, callsign) ==
    LET ld == CSV_load_data(f)
    IN  IF ld.exc # "" THEN [file |-> f, ret |-> Raise(ld.exc)]
        ELSE LET new_data ==
                     SelectSeq(ld.data,
                               LAMBDA row : PyEq(Get(row, "callsign", PyNone), callsign))
             IN  IF Len(new_data) < Len(ld.data)
                 THEN [file |-> CSV_save_data(f, w, new_data).file, ret |-> RetBool(TRUE)]
                 ELSE [file |-> f, ret |-> RetBool(FALSE)]

CSV_delete_aircraft(f, w, callsign) ==
    LET ld == CSV_load_data(f)
    IN  IF ld.exc # "" THEN [file |-> f, ret |-> Raise(ld.exc)]
        ELSE LET new_data ==
                     SelectSeq(ld.data,
                               LAMBDA row : ~PyEq(Get(row, "callsign", PyNone), callsign))
             IN  IF Len(new_data) < Len(ld.data)
                 THEN [file |-> CSV_save_data(f, w, new_data).file, ret |-> RetBool(TRUE)]
                 ELSE [file |-> f, ret |-> RetBool(FALSE)]

\* A clear that leaves a file of zero bytes.
CSV_clear_truncate(f, w) ==
    LET sv == CSV_save_data(f, w, <<>>)
    IN  [file |-> IF sv.ok THEN CsvFile("empty", <<>>) ELSE f, ret |-> RetBool(sv.ok)]

CSV_clear(f, w) ==
    LET sv == CSV_save_data(f, w, <<>>)
    IN  [file |-> sv.file, ret |-> RetBool(sv.ok)]

CSV_count(f) ==
    LET ld == CSV_load_data(f)
    IN  IF ld.exc # "" THEN Raise(ld.exc) ELSE RetInt(Len(ld.data))

(* --------------------------- inputs of the calls ----------------------- *)

\* Records handed to the store, each built by the Aircraft constructor.  Two
\* share the callsign "A" (one is given as " A ") and differ in every other
\* field; velocities and coordinates carry more digits than the CSV formats
\* keep.
SampleAircraft ==
    {Aircraft(PyStr("A"), PyStr("RU"), PyNum(280456), PyNum(11000000),
              [icao24 |-> PyStr("abc123"), longitude |-> PyNum(371234567),
               latitude |-> PyNum(557500000), on_ground |-> PyBool(FALSE),
               vertical_rate |-> PyNum(10500)]),
     Aircraft(PyStr(" A "), PyStr("US"), PyNum(500000), PyNum(9500000),
              [icao24 |-> PyStr("new123")]),
     Aircraft(PyStr("B"), PyStr("RU"), PyNum(260300), PyNum(10500000),
              [icao24 |-> PyStr("def456"), on_ground |-> PyBool(FALSE)]),
     Aircraft(PyStr("C"), PyStr("US"), PyNum(-50000), PyNum(-500000),
              [icao24 |-> PyStr("ghi789"), longitude |-> PyNum(-4500000)])}

\* The records used while the file system misbehaves: the two "A" and "B".
FaultAircraft == {a \in SampleAircraft : a.callsign \in {PyStr("A"), PyStr("B")}}

\* The lists of at most n records of S.
RECURSIVE Batches(_, _)
Batches(S, n) ==
    IF n = 0 THEN {<<>>}
    ELSE Batches(S, n - 1) \cup
         {Append(l, a) : l \in {b \in Batches(S, n - 1) : Len(b) = n - 1}, a \in S}

SampleCallsigns == {PyStr("A"), PyStr("B"), PyStr("C"), PyStr("Z")}

Pair(key, value) == [key |-> key, value |-> value]

SampleCriteria ==
    {NoCriteria,
     Criteria(<<>>),
     Criteria(<<Pair("origin_country", PyStr("RU"))>>),
     Criteria(<<Pair("origin_country", PyStr("RU")), Pair("on_ground", PyBool(FALSE))>>),
     Criteria(<<Pair("callsign", PyStr("A")), Pair("origin_country", PyStr("US"))>>),
     Criteria(<<Pair("velocity", PyNum(280456))>>),
     Criteria(<<Pair("velocity", PyNum(280460))>>),
     Criteria(<<Pair("registration", PyNone)>>)}

(* ------------------------------- state --------------------------------- *)

VARIABLES
    jfile,   \* the JSON backing file
    cfile,   \* the CSV backing file
    jw,      \* the JSON file can be opened for writing
    cw,      \* the CSV file can be opened for writing
    last,    \* the last call: [op, arg]
    jprev,   \* the JSON file before the last call
    cprev,   \* the CSV file before the last call
    jret,    \* what the last call returned on the JSONStorage
    cret,    \* what the last call returned on the CSVStorage
    nfaults, \* faults of the file system so far
    ra,      \* an Aircraft object (PyNone before it is constructed)
    rborn,   \* that object as its constructor left it
    rlast,   \* the last call on the object: [op, arg]
    rret,    \* what that call ended with: [exc, v]
    callers, \* two callers of add_aircraft on the same path, each between
             \* its _load_data and its _save_data
    api,     \* an AircraftAPI object and the call it is in
    cli      \* the console session: where it is and what its last turn did

\* The stores and their files.
svars == <<jfile, cfile, jw, cw, last, jprev, cprev, jret, cret, nfaults>>

\* The Aircraft object.
rvars == <<ra, rborn, rlast, rret>>

\* The callers that share a path, and the programs around the stores.
xvars == <<callers, api, cli>>

vars == <<jfile, cfile, jw, cw, last, jprev, cprev, jret, cret, nfaults,
          ra, rborn, rlast, rret, callers, api, cli>>

\* What response.json() gives, as far as AircraftAPI looks into it: null
\* (None), an object or an array of len members; for the geocoding result
\* box is the "boundingbox" of its first element (NoBox when it has none),
\* for the flight-state result states is the number of state vectors under
\* "states" (NoStates without the key, NullStates for null).
NoBox == <<-1>>
NoStates == -2
NullStates == -1
JsonNull == [shape |-> "null", len |-> 0, box |-> NoBox, states |-> NoStates]
JsonArray(len, box) == [shape |-> "array", len |-> len, box |-> box, states |-> NoStates]
JsonObject(len, states) == [shape |-> "object", len |-> len, box |-> NoBox, states |-> states]

\* A caller that is not inside add_aircraft.
Idle ==
    [pc |-> "idle", aircraft |-> PyNone,
     j |-> [kind |-> "array", items |-> <<>>], c |-> [kind |-> "table", rows |-> <<>>],
     early |-> FALSE, order |-> 0, jret |-> NoRet, cret |-> NoRet]

Call(op, arg) == [op |-> op, arg |-> arg]

\* After JSONStorage(path) and CSVStorage(path) on fresh paths:
\* _ensure_file_exists has written [] and the header row.
Init ==
    /\ jfile = JsonFile("array", <<>>)
    /\ cfile = CsvFile("table", <<>>)
    /\ jw = TRUE
    /\ cw = TRUE
    /\ last = Call("init", <<>>)
    /\ jprev = jfile
    /\ cprev = cfile
    /\ jret = NoRet
    /\ cret = NoRet
    /\ nfaults = 0
    /\ ra = PyNone
    /\ rborn = PyNone
    /\ rlast = Call("init", <<>>)
    /\ rret = [exc |-> "", v |-> PyNone]
    /\ callers = [c \in 1..2 |-> Idle]
    /\ api = [pc |-> "idle", method |-> "", country |-> "", data |-> JsonNull,
              aeroplanes |-> JsonNull, log |-> <<>>, ret |-> JsonNull, exc |-> ""]
    /\ cli = [pc |-> "start", format |-> "", choice |-> "", input |-> "",
              calls |-> <<>>, exc |-> ""]

\* A call that may write: j and c are [file, ret] of the two backends.
Write(op, arg, j, c) ==
    /\ last' = Call(op, arg)
    /\ jprev' = jfile
    /\ cprev' = cfile
    /\ jfile' = j.file
    /\ cfile' = c.file
    /\ jret' = j.ret
    /\ cret' = c.ret
    /\ UNCHANGED <<jw, cw, nfaults>>
    /\ UNCHANGED <<rvars, xvars>>

\* A call that only reads: j and c are the two results.
Read(op, arg, j, c) ==
    /\ last' = Call(op, arg)
    /\ jprev' = jfile
    /\ cprev' = cfile
    /\ jret' = j
    /\ cret' = c
    /\ UNCHANGED <<jfile, cfile, jw, cw, nfaults>>
    /\ UNCHANGED <<rvars, xvars>>

AddAircraftOf(S) ==
    \E a \in S :
        Write("add_aircraft", a,
              JSON_add_aircraft(jfile, jw, a), CSV_add_aircraft(cfile, cw, a))

AddMultipleAircraftOf(S, n) ==
    \E l \in Batches(S, n) :
        Write("add_multiple_aircraft", l,
              JSON_add_multiple_aircraft(jfile, jw, l),
              CSV_add_multiple_aircraft(cfile, cw, l))

GetAircraft ==
    \E criteria \in SampleCriteria :
        Read("get_aircraft", criteria,
             JSON_get_aircraft(jfile, criteria), CSV_get_aircraft(cfile, criteria))

GetAll == Read("get_all", <<>>, JSON_get_all(jfile), CSV_get_all(cfile))

DeleteAircraft ==
    \E callsign \in SampleCallsigns :
        Write("delete_aircraft", callsign,
              JSON_delete_aircraft(jfile, jw, callsign),
              CSV_delete_aircraft(cfile, cw, callsign))

Clear == Write("clear", <<>>, JSON_clear(jfile, jw), CSV_clear(cfile, cw))

Count == Read("count", <<>>, JSON_count(jfile), CSV_count(cfile))

GetTopByAltitude ==
    \E n \in 1..MaxTop :
        Read("get_top_by_altitude", n,
             JSON_get_top_by_altitude(jfile, n), CSV_get_top_by_altitude(cfile, n))

\* JSONStorage(path) and CSVStorage(path) constructed again on the two paths.
NewStorage == Write("__init__", <<>>, JSON_init(jfile, jw), CSV_init(cfile, cw))

AddAircraft == AddAircraftOf(SampleAircraft)

AddMultipleAircraft == AddMultipleAircraftOf(SampleAircraft, MaxBatch)

Next ==
    \/ AddAircraft
    \/ AddMultipleAircraft
    \/ GetAircraft
    \/ GetAll
    \/ DeleteAircraft
    \/ Clear
    \/ Count
    \/ GetTopByAltitude

\* Sequential use of two stores on fresh paths, every write succeeding.
Spec == Init /\ [][Next]_vars

(* ----------------------- faults of the file system --------------------- *)

DamagedJsonKinds == {"missing", "unreadable", "empty", "garbage", "object", "number"}

DamagedCsvKinds == {"missing", "unreadable", "empty"}

\* A fault: the files and permissions after it.
Fault(jf, cf, j, c) ==
    /\ nfaults < MaxFaults
    /\ nfaults' = nfaults + 1
    /\ jfile' = jf
    /\ cfile' = cf
    /\ jw' = j
    /\ cw' = c
    /\ last' = Call("env", <<>>)
    /\ jprev' = jfile
    /\ cprev' = cfile
    /\ jret' = NoRet
    /\ cret' = NoRet
    /\ UNCHANGED <<rvars, xvars>>

\* Something outside the program replaces the JSON file.
DamageJson == \E kind \in DamagedJsonKinds : Fault(JsonFile(kind, <<>>), cfile, jw, cw)

\* Something outside the program replaces the CSV file.
DamageCsv == \E kind \in DamagedCsvKinds : Fault(jfile, CsvFile(kind, <<>>), jw, cw)

\* A CSV line cut after its second cell: DictReader gives the other seven
\* fields the value None.
TruncatedRow(row) ==
    [k \in DOMAIN row |-> IF k \in {"callsign", "origin_country"} THEN row[k] ELSE PyNone]

\* The last line of the CSV file is cut short (a write that did not finish).
TruncateCsv ==
    /\ cfile.kind = "table"
    /\ cfile.rows # <<>>
    /\ Fault(jfile,
             CsvFile("table", [cfile.rows EXCEPT ![Len(cfile.rows)] = TruncatedRow(@)]),
             jw, cw)

\* The files stop being writable (permissions, a full disk).
SetUnwritable ==
    \E j \in BOOLEAN, c \in BOOLEAN :
        /\ ~(j /\ c)
        /\ Fault(jfile, cfile, j, c)

NextFault ==
    \/ AddAircraftOf(FaultAircraft)
    \/ AddMultipleAircraftOf(FaultAircraft, 1)
    \/ GetAircraft
    \/ GetAll
    \/ DeleteAircraft
    \/ Clear
    \/ Count
    \/ DamageJson
    \/ DamageCsv
    \/ TruncateCsv
    \/ SetUnwritable

\* Sequential use of the two stores while the file system misbehaves.
SpecFault == Init /\ [][NextFault]_vars

\* The files are removed, one of them together with its directory.
RemoveFiles ==
    \E jk \in {"missing", "nodir"}, ck \in {"missing", "nodir"} :
        Fault(JsonFile(jk, <<>>), CsvFile(ck, <<>>), jw, cw)

NextDamage ==
    \/ NewStorage
    \/ Clear
    \/ AddAircraftOf(FaultAircraft)
    \/ Count
    \/ GetAll
    \/ DamageJson
    \/ DamageCsv
    \/ TruncateCsv
    \/ RemoveFiles

\* Stores opened again, cleared and filled while their files are damaged or
\* removed from outside; every file that exists can be written.
SpecDamage == Init /\ [][NextDamage]_vars

(* ------------------- files written by another program ----------------- *)

\* The row of a sample record as CSVStorage writes it, its velocity and
\* on_ground cells replaced by the given texts.
ForeignRow(a, velocity, on_ground) ==
    [_aircraft_to_row(a).row EXCEPT !["velocity"] = velocity, !["on_ground"] = on_ground]

\* The sample records of callsign "A" (two of them) and "B".
SampleA1 == CHOOSE a \in SampleAircraft : a.callsign = PyStr("A") /\ a.origin_country = PyStr("RU")

SampleA2 == CHOOSE a \in SampleAircraft : a.callsign = PyStr("A") /\ a.origin_country = PyStr("US")

SampleB == CHOOSE a \in SampleAircraft : a.callsign = PyStr("B")

\* Well-formed files another program may leave at the two paths: records that
\* share a callsign; a row whose on_ground text is no boolean; a row whose
\* velocity text is no number.
ForeignFiles ==
    <<[json |-> <<to_dict(SampleA1), to_dict(SampleB), to_dict(SampleA2)>>,
       csv  |-> <<_aircraft_to_row(SampleA1).row, _aircraft_to_row(SampleB).row,
                  _aircraft_to_row(SampleA2).row>>],
      [json |-> <<to_dict(SampleA1), to_dict(SampleB)>>,
       csv  |-> <<_aircraft_to_row(SampleA1).row,
                  ForeignRow(SampleB, DecText(26030, 2), PyStr("maybe"))>>],
      [json |-> <<to_dict(SampleA1), to_dict(SampleB)>>,
       csv  |-> <<_aircraft_to_row(SampleA1).row,
                  ForeignRow(SampleB, PyStr("abc"), PyStr("False"))>>]>>

\* Criteria on typed fields.
ForeignCriteria ==
    {Criteria(<<Pair("velocity", PyNum(0))>>),
     Criteria(<<Pair("velocity", PyNum(260300))>>),
     Criteria(<<Pair("on_ground", PyBool(FALSE))>>),
     Criteria(<<Pair("on_ground", PyBool(TRUE))>>)}

\* Another program writes the two files.
PutForeign ==
    \E i \in 1..Len(ForeignFiles) :
        Fault(JsonFile("array", ForeignFiles[i].json),
              CsvFile("table", ForeignFiles[i].csv), jw, cw)

GetAircraftTyped ==
    \E criteria \in ForeignCriteria :
        Read("get_aircraft", criteria,
             JSON_get_aircraft(jfile, criteria), CSV_get_aircraft(cfile, criteria))

GetAircraftByCountry ==
    \E country \in {PyStr("RU"), PyStr("US")} :
        Read("get_aircraft_by_country", country,
             JSON_get_aircraft_by_country(jfile, country),
             CSV_get_aircraft_by_country(cfile, country))

NextForeign ==
    \/ AddAircraftOf(FaultAircraft)
    \/ AddMultipleAircraftOf(FaultAircraft, 1)
    \/ GetAircraftTyped
    \/ GetAircraftByCountry
    \/ GetAll
    \/ GetTopByAltitude
    \/ DeleteAircraft
    \/ Count
    \/ PutForeign

\* Sequential use of the two stores over files that another program wrote.
SpecForeign == Init /\ [][NextForeign]_vars

(* --------------------------- one Aircraft object ----------------------- *)

\* What is handed to the constructor as callsign.
CallsignInputs == {PyStr("A"), PyStr(" A "), PyStr("  "), PyStr(""), PyNone, PyNum(5)}

\* What is handed to the constructor and to the setter as velocity:
\* 280.456, -50, None, "abc", 10 ** 400.
VelocityInputs == {PyNum(280456), PyNum(-50000), PyNone, PyStr("abc"), PyBigInt}

\* What is handed to the constructor and to the setter as altitude:
\* 11000, -500, -5000, None, 10 ** 400.
AltitudeInputs == {PyNum(11000000), PyNum(-500000), PyNum(-5000000), PyNone, PyBigInt}

\* The keyword arguments: none, or all five.
KwInputs ==
    <<[icao24 |-> PyStr("abc123")],
      [icao24 |-> PyStr("abc123"), longitude |-> PyNum(371234567),
       latitude |-> PyNum(557500000), on_ground |-> PyBool(FALSE),
       vertical_rate |-> PyNum(10500)]>>

\* Mappings handed to from_dict: without the numeric keys, with None in
\* them, with text and with a number above the float range in them.
MappingInputs ==
    <<[callsign |-> PyStr("A")],
      [callsign |-> PyNone, origin_country |-> PyStr("RU"),
       velocity |-> PyNone, altitude |-> PyNone],
      [callsign |-> PyStr("A"), origin_country |-> PyStr("RU"),
       velocity |-> PyStr("abc"), altitude |-> PyNum(-5000000)],
      [callsign |-> PyStr("A"), origin_country |-> PyStr("RU"),
       velocity |-> PyNum(280456), altitude |-> PyBigInt]>>

\* The other operand of a comparison: objects near the first sample in
\* velocity (by 0.099 and 0.144) and altitude (by 0.999 and 1.0), objects of
\* another country and callsign, and two values that are no Aircraft.
Operands ==
    <<Aircraft(PyStr("A"), PyStr("RU"), PyNum(280456), PyNum(11000000), <<>>),
      Aircraft(PyStr("A"), PyStr("RU"), PyNum(280555), PyNum(11000999), <<>>),
      Aircraft(PyStr("A"), PyStr("RU"), PyNum(280600), PyNum(11000000), <<>>),
      Aircraft(PyStr("A"), PyStr("RU"), PyNum(280456), PyNum(11001000), <<>>),
      Aircraft(PyStr("A"), PyStr("US"), PyNum(280456), PyNum(11000000), <<>>),
      Aircraft(PyStr("B"), PyStr("RU"), PyNum(300000), PyNum(-1000000), <<>>),
      PyNum(5),
      PyNone>>

\* The comparison methods.
Methods == {"__lt__", "__le__", "__gt__", "__ge__", "__eq__", "higher_than", "faster_than"}

\* a.<op>(x)
Method(op, a, x) ==
    CASE op = "__lt__"      -> __lt__(a, x)
      [] op = "__le__"      -> __le__(a, x)
      [] op = "__gt__"      -> __gt__(a, x)
      [] op = "__ge__"      -> __ge__(a, x)
      [] op = "__eq__"      -> __eq__(a, x)
      [] op = "higher_than" -> higher_than(a, x)
      [] OTHER              -> faster_than(a, x)

\* A constructor call: the object, or the exception that escapes (no object).
Construct(op, arg, exc, a) ==
    /\ ra = PyNone
    /\ rlast' = Call(op, arg)
    /\ IF exc # ""
       THEN rret' = [exc |-> exc, v |-> PyNone] /\ UNCHANGED <<ra, rborn>>
       ELSE rret' = [exc |-> "", v |-> a] /\ ra' = a /\ rborn' = a
    /\ UNCHANGED <<svars, xvars>>

\* Aircraft(callsign, "RU", velocity, altitude, **kw)
New ==
    \E callsign \in CallsignInputs, velocity \in VelocityInputs,
       altitude \in AltitudeInputs, i \in 1..Len(KwInputs) :
        Construct("Aircraft",
                  [callsign |-> callsign, velocity |-> velocity,
                   altitude |-> altitude, kw |-> KwInputs[i]],
                  AircraftExc(velocity, altitude),
                  Aircraft(callsign, PyStr("RU"), velocity, altitude, KwInputs[i]))

\* Aircraft.from_dict(data)
NewFromDict ==
    \E i \in 1..Len(MappingInputs) :
        Construct("from_dict", MappingInputs[i],
                  from_dict_exc(MappingInputs[i]), from_dict(MappingInputs[i]))

\* A setter call: the attribute is assigned unless the validation raises.
Set(op, value, a) ==
    /\ ra # PyNone
    /\ rlast' = Call(op, value)
    /\ IF ValidateExc(value) # ""
       THEN rret' = [exc |-> ValidateExc(value), v |-> PyNone] /\ UNCHANGED ra
       ELSE rret' = [exc |-> "", v |-> PyNone] /\ ra' = a
    /\ UNCHANGED rborn
    /\ UNCHANGED <<svars, xvars>>

\* a.velocity = value
SetVelocity == \E value \in VelocityInputs : Set("velocity", value, velocity_setter(ra, value))

\* a.altitude = value
SetAltitude == \E value \in AltitudeInputs : Set("altitude", value, altitude_setter(ra, value))

\* a.<op>(x) for a comparison method and an operand x.
Compare ==
    \E op \in Methods, i \in 1..Len(Operands) :
        /\ ra # PyNone
        /\ rlast' = Call(op, Operands[i])
        /\ rret' = [exc |-> "", v |-> Method(op, ra, Operands[i])]
        /\ UNCHANGED <<ra, rborn>>
        /\ UNCHANGED <<svars, xvars>>

\* Aircraft.from_dict(a.to_dict())
RoundTrip ==
    /\ ra # PyNone
    /\ rlast' = Call("round_trip", <<>>)
    /\ rret' = [exc |-> from_dict_exc(to_dict(ra)), v |-> from_dict(to_dict(ra))]
    /\ UNCHANGED <<ra, rborn>>
    /\ UNCHANGED <<svars, xvars>>

NextAircraft ==
    \/ New
    \/ NewFromDict
    \/ SetVelocity
    \/ SetAltitude
    \/ Compare
    \/ RoundTrip

\* The life of one Aircraft object: constructed, then set and compared.
SpecAircraft == Init /\ [][NextAircraft]_vars

(* ------------------ lists with repeated and missing callsigns ---------- *)

\* Records of one callsign with different fields, and records built from an
\* empty callsign and from a callsign that is no string.
BatchAircraft ==
    {SampleA1, SampleA2,
     Aircraft(PyStr(""), PyStr("RU"), PyNum(100000), PyNum(1000000),
              [icao24 |-> PyStr("u1")]),
     Aircraft(PyNum(5), PyStr("US"), PyNum(200000), PyNum(2000000),
              [icao24 |-> PyStr("u2")])}

NextBatch ==
    \/ AddMultipleAircraftOf(BatchAircraft, MaxBatch)
    \/ DeleteAircraft
    \/ Clear
    \/ GetAll
    \/ Count

\* add_multiple_aircraft with lists in which callsigns repeat.
SpecBatch == Init /\ [][NextBatch]_vars

(* ------------------------ records that stay stored -------------------- *)

\* The two "A", "B", and a record built from a callsign of two spaces.
DurableAircraft ==
    FaultAircraft \cup
        {Aircraft(PyStr("  "), PyStr("RU"), PyNum(100000), PyNum(1000000),
                  [icao24 |-> PyStr("w1")])}

NextDurable ==
    \/ AddAircraftOf(DurableAircraft)
    \/ AddMultipleAircraftOf(DurableAircraft, 1)
    \/ DeleteAircraft
    \/ Clear
    \/ NewStorage
    \/ GetAll
    \/ GetTopByAltitude

\* Stores used, and constructed again on their paths, every write succeeding.
SpecDurable == Init /\ [][NextDurable]_vars

(* ---------------- two callers of add_aircraft on one path ------------- *)

\* Caller c enters add_aircraft(a): data = self._load_data() reads the two
\* files as they are now; early when no caller of the round has saved yet.
RaceLoad(c) ==
    \E a \in SampleAircraft :
        /\ callers[c].pc = "idle"
        /\ callers' = [callers EXCEPT ![c] =
               [Idle EXCEPT !.pc = "loaded", !.aircraft = a, !.j = jfile, !.c = cfile,
                            !.early = \A d \in 1..2 : callers[d].pc # "done"]]
        /\ UNCHANGED <<svars, rvars, api, cli>>

\* Caller c leaves add_aircraft: the list made of the data loaded from j and
\* cf, with the record put in, is written over the files and the result of
\* _save_data is returned.
RaceSaveFrom(c, j, cf) ==
    LET js == JSON_add_aircraft(j, jw, callers[c].aircraft)
        cs == CSV_add_aircraft(cf, cw, callers[c].aircraft)
    IN  /\ callers[c].pc = "loaded"
        /\ jfile' = js.file
        /\ cfile' = cs.file
        /\ callers' = [callers EXCEPT ![c] =
               [@ EXCEPT !.pc = "done", !.jret = js.ret, !.cret = cs.ret,
                         !.order = 1 + Cardinality({d \in 1..2 : callers[d].pc = "done"})]]
        /\ UNCHANGED <<jw, cw, last, jprev, cprev, jret, cret, nfaults>>
        /\ UNCHANGED <<rvars, api, cli>>

\* A save that reads the files again before it writes.
RaceSaveReloading(c) == RaceSaveFrom(c, jfile, cfile)

RaceSave(c) == RaceSaveFrom(c, callers[c].j, callers[c].c)

\* Both callers have returned; a new round can start.
RaceReturn ==
    /\ \A c \in 1..2 : callers[c].pc = "done"
    /\ callers' = [c \in 1..2 |-> Idle]
    /\ UNCHANGED <<svars, rvars, api, cli>>

\* An add_aircraft or delete_aircraft of a single caller, between rounds.
RaceAlone ==
    /\ \A c \in 1..2 : callers[c].pc = "idle"
    /\ (AddAircraft \/ DeleteAircraft)

NextRace ==
    \/ \E c \in 1..2 : RaceLoad(c)
    \/ \E c \in 1..2 : RaceSave(c)
    \/ RaceReturn
    \/ RaceAlone

\* Two JSONStorage (CSVStorage) objects on one path used by two callers.
SpecRace == Init /\ [][NextRace]_vars

(* ------------------------------ AircraftAPI ---------------------------- *)

\* The entries a bounding box can have: south, north, west, east, and one
\* more than the four that are used.
MaxBox == 5
BoxEntries == [i \in 1..MaxBox |-> 40 + i]

\* What the geocoding service answers: no result, null, an error object, a
\* result without a bounding box, and results with boxes of 0..MaxBox entries.
GeoResponses ==
    {JsonArray(0, NoBox), JsonNull, JsonObject(0, NoStates), JsonObject(1, NoStates),
     JsonArray(1, NoBox)}
        \cup {JsonArray(1, SubSeq(BoxEntries, 1, k)) : k \in 0..MaxBox}

\* What the flight-state service answers: objects with 0..2 state vectors,
\* with "states": null, without "states", and null.
FlightResponses ==
    {JsonObject(2, n) : n \in 0..2}
        \cup {JsonObject(2, NullStates), JsonObject(1, NoStates), JsonObject(0, NoStates), JsonNull}

\* not data or len(data) == 0
NoData(data) == data.shape = "null" \/ data.len = 0

\* A test that lets every bounding box through.
BoxMissingNever(geo_coordinates) == geo_coordinates = NoBox

\* not geo_coordinates or len(geo_coordinates) < 4
BoxMissing(geo_coordinates) ==
    geo_coordinates = NoBox \/ Len(geo_coordinates) = 0 \/ Len(geo_coordinates) < 4

\* {"states": []}
EmptyStates == JsonObject(1, 0)

\* A request of the session: the service asked and what it was asked for.
Request(url, params) == [url |-> url, params |-> params]

\* method(country) is entered: get_aircraft_by_country calls get_aeroplanes,
\* which sends its request to the geocoding service.
ApiCall ==
    \E method \in {"get_aeroplanes", "get_aircraft_by_country"},
       country \in {"Russia", "Atlantis"} :
        /\ api.pc = "idle"
        /\ api' = [api EXCEPT !.pc = "geocoding", !.method = method,
                              !.country = country, !.data = JsonNull,
                              !.log = <<Request("nominatim", <<country>>)>>,
                              !.ret = JsonNull, !.exc = ""]
        /\ UNCHANGED <<svars, rvars, callers, cli>>

\* What get_aircraft_by_country returns once get_aeroplanes has returned:
\* self.aeroplanes["states"] if self.aeroplanes has the key, [] otherwise
\* (get_aeroplanes itself returns None).
ApiReturned(method, aeroplanes) ==
    IF method = "get_aeroplanes" THEN JsonNull
    ELSE IF aeroplanes.shape = "object" /\ aeroplanes.len > 0 /\ aeroplanes.states # NoStates
    THEN IF aeroplanes.states = NullStates THEN JsonNull
         ELSE JsonArray(aeroplanes.states, NoBox)
    ELSE JsonArray(0, NoBox)

\* The geocoding service has answered data: without data or without a box
\* of four entries aeroplanes becomes {"states": []} and the call returns;
\* data[0] of an object raises KeyError; otherwise the flight-state service
\* is asked for geo_coordinates[0..3] (IndexError on a shorter list).
ApiGeocoded ==
    \E data \in GeoResponses :
        /\ api.pc = "geocoding"
        /\ api' =
              IF NoData(data)
              THEN [api EXCEPT !.pc = "idle", !.data = data, !.aeroplanes = EmptyStates,
                               !.ret = ApiReturned(api.method, EmptyStates)]
              ELSE IF data.shape = "object"
              THEN [api EXCEPT !.pc = "idle", !.data = data, !.exc = "KeyError"]
              ELSE IF BoxMissing(data.box)
              THEN [api EXCEPT !.pc = "idle", !.data = data, !.aeroplanes = EmptyStates,
                               !.ret = ApiReturned(api.method, EmptyStates)]
              ELSE IF Len(data.box) < 4
              THEN [api EXCEPT !.pc = "idle", !.data = data, !.exc = "IndexError"]
              ELSE [api EXCEPT !.pc = "flying", !.data = data,
                               !.log = Append(@, Request("opensky", SubSeq(data.box, 1, 4)))]
        /\ UNCHANGED <<svars, rvars, callers, cli>>

\* The flight-state service has answered: self.aeroplanes = response.json().
ApiFlown ==
    \E response \in FlightResponses :
        /\ api.pc = "flying"
        /\ api' = [api EXCEPT !.pc = "idle", !.aeroplanes = response,
                              !.ret = ApiReturned(api.method, response)]
        /\ UNCHANGED <<svars, rvars, callers, cli>>

NextApi == ApiCall \/ ApiGeocoded \/ ApiFlown

\* Calls of get_aeroplanes and get_aircraft_by_country on one AircraftAPI.
SpecApi == Init /\ [][NextApi]_vars

(* ---------------------------- console session ------------------------- *)

\* str.isdigit() on the texts that occur.
IsDigit(x) ==
    CASE x = "123" -> TRUE
      [] x = "3"   -> TRUE
      [] x = "0"   -> TRUE
      [] OTHER     -> FALSE

\* int(text): the number, or ValueError, on the texts that occur.
PyInt(x) ==
    CASE x = "3"   -> [exc |-> "", n |-> 3]
      [] x = " 3 " -> [exc |-> "", n |-> 3]
      [] x = "0"   -> [exc |-> "", n |-> 0]
      [] x = "-1"  -> [exc |-> "", n |-> -1]
      [] OTHER     -> [exc |-> "ValueError", n |-> 0]

\* validate_country(country) for a text country.
validate_country(country) ==
    IF country = "" THEN FALSE
    ELSE Strip(country) # "" /\ ~IsDigit(Strip(country))

\* A state vector of the flight-state service: its length and the entries
\* process_aircraft_data reads.
StateVector(len, icao24, callsign, origin_country, altitude, velocity) ==
    [len |-> len, icao24 |-> icao24, callsign |-> callsign,
     origin_country |-> origin_country, longitude |-> PyNum(371234567),
     latitude |-> PyNum(557500000), altitude |-> altitude,
     on_ground |-> PyBool(FALSE), velocity |-> velocity,
     true_track |-> PyNum(90000), vertical_rate |-> PyNone,
     geo_altitude |-> PyNone]

\* process_aircraft_data(raw_data): the vectors of at least 14 entries as
\* mappings, with "Unknown" and 0.0 for what is missing.
process_aircraft_data(raw_data) ==
    LET long == SelectSeq(raw_data, LAMBDA state : state.len >= 14)
        OrZero(v) == IF v # PyNone THEN v ELSE PyNum(0)
    IN  [i \in 1..Len(long) |->
            [icao24         |-> long[i].icao24,
             callsign       |-> IF Truthy(long[i].callsign)
                                THEN PyStr(Strip(long[i].callsign.s))
                                ELSE PyStr("Unknown"),
             origin_country |-> IF Truthy(long[i].origin_country)
                                THEN long[i].origin_country
                                ELSE PyStr("Unknown"),
             longitude      |-> long[i].longitude,
             latitude       |-> long[i].latitude,
             altitude       |-> OrZero(long[i].altitude),
             on_ground      |-> long[i].on_ground,
             velocity       |-> OrZero(long[i].velocity),
             true_track     |-> long[i].true_track,
             vertical_rate  |-> OrZero(long[i].vertical_rate),
             geo_altitude   |-> OrZero(long[i].geo_altitude)]]

\* What is typed when a country is asked for.
CountryInputs == {"Russia", "", "123", "  "}

\* What is typed when the number of records is asked for.
NumberInputs == {"3", " 3 ", "0", "-1", "abc", ""}

\* What api.get_aircraft_by_country gives the session: an exception, None,
\* [], and lists of state vectors (one too short, one without callsign,
\* country, altitude and velocity).
RawResults ==
    LET v1 == StateVector(17, PyStr("abc123"), PyStr(" A "), PyStr("RU"),
                          PyNum(11000000), PyNum(280456))
        v2 == StateVector(17, PyStr("def456"), PyNone, PyNone, PyNone, PyNone)
        v3 == StateVector(10, PyStr("ghi789"), PyStr("C"), PyStr("US"),
                          PyNum(9500000), PyNum(500000))
    IN  {[exc |-> "KeyError", none |-> FALSE, l |-> <<>>],
         [exc |-> "", none |-> TRUE, l |-> <<>>],
         [exc |-> "", none |-> FALSE, l |-> <<>>],
         [exc |-> "", none |-> FALSE, l |-> <<v1>>],
         [exc |-> "", none |-> FALSE, l |-> <<v3>>],
         [exc |-> "", none |-> FALSE, l |-> <<v2, v3, v1>>]}

\* A call the session made in a turn of its loop, and whether it gave
\* something (True, a non-empty list).
Called(f, ok) == [f |-> f, ok |-> ok]

\* A file the turn did not touch.
Untouched(f) == [file |-> f, ret |-> NoRet]

\* A call of the store the session uses: jres on the JSONStorage, cres on
\* the CSVStorage, [file, ret] each.
OfStorage(jres, cres) ==
    IF cli.format = "json" THEN [j |-> jres, c |-> Untouched(cfile)]
    ELSE [j |-> Untouched(jfile), c |-> cres]

\* storage.get_all() of the session.
StorageGetAll ==
    OfStorage([file |-> jfile, ret |-> JSON_get_all(jfile)],
              [file |-> cfile, ret |-> CSV_get_all(cfile)])

\* The result of the call of the store that was made.
Result(st) == IF cli.format = "json" THEN st.j.ret ELSE st.c.ret

\* One turn of the loop: choice and typed text, the calls made, the store
\* call st and the exception that ends the session ("" when it goes on).
Turn(choice, input, calls, st, exc) ==
    /\ cli.pc = "menu"
    /\ cli' = [cli EXCEPT !.pc = IF exc # "" THEN "exit" ELSE "menu",
                          !.choice = choice, !.input = input,
                          !.calls = calls, !.exc = exc]
    /\ last' = Call("user_interaction", choice)
    /\ jprev' = jfile
    /\ cprev' = cfile
    /\ jfile' = st.j.file
    /\ cfile' = st.c.file
    /\ jret' = st.j.ret
    /\ cret' = st.c.ret
    /\ UNCHANGED <<jw, cw, nfaults>>
    /\ UNCHANGED <<rvars, callers, api>>

\* No call of the store in the turn.
NoStorage == [j |-> Untouched(jfile), c |-> Untouched(cfile)]

\* The format is chosen and the store constructed: CSVStorage() for "2",
\* JSONStorage() otherwise.
CliStart ==
    \E format_choice \in {"1", "2", ""} :
        LET format == IF format_choice = "2" THEN "csv" ELSE "json"
        IN  /\ cli.pc = "start"
            /\ cli' = [cli EXCEPT !.pc = "menu", !.format = format,
                                  !.input = format_choice]
            /\ last' = Call("__init__", <<>>)
            /\ jprev' = jfile
            /\ cprev' = cfile
            /\ jfile' = IF format = "json" THEN JSON_init(jfile, jw).file ELSE jfile
            /\ cfile' = IF format = "csv" THEN CSV_init(cfile, cw).file ELSE cfile
            /\ jret' = NoRet
            /\ cret' = NoRet
            /\ UNCHANGED <<jw, cw, nfaults>>
            /\ UNCHANGED <<rvars, callers, api>>

\* Choice "0": the loop ends.
CliQuit ==
    /\ cli.pc = "menu"
    /\ cli' = [cli EXCEPT !.pc = "exit", !.choice = "0", !.input = "",
                          !.calls = <<>>, !.exc = ""]
    /\ last' = Call("user_interaction", "0")
    /\ jprev' = jfile
    /\ cprev' = cfile
    /\ jret' = NoRet
    /\ cret' = NoRet
    /\ UNCHANGED <<jfile, cfile, jw, cw, nfaults>>
    /\ UNCHANGED <<rvars, callers, api>>

\* The calls of choice "1" when the country is not validated first.
FetchCallsUnvalidated(country, raw_data) ==
    IF raw_data.exc # "" \/ raw_data.none \/ raw_data.l = <<>>
    THEN <<Called("validate_country", validate_country(country)),
           Called("api.get_aircraft_by_country", FALSE)>>
    ELSE <<Called("validate_country", validate_country(country)),
           Called("api.get_aircraft_by_country", TRUE),
           Called("api.process_aircraft_data", TRUE),
           Called("Aircraft.cast_to_object_list", TRUE),
           Called("storage.add_multiple_aircraft", TRUE)>>

\* The calls of choice "1" for the typed country and the answer raw_data of
\* the API: validate_country, then the API, then, for a non-empty answer,
\* the conversion and storage.add_multiple_aircraft.
FetchCalls(country, raw_data) ==
    IF ~validate_country(country)
    THEN <<Called("validate_country", FALSE)>>
    ELSE IF raw_data.exc # "" \/ raw_data.none \/ raw_data.l = <<>>
    THEN <<Called("validate_country", TRUE),
           Called("api.get_aircraft_by_country", FALSE)>>
    ELSE <<Called("validate_country", TRUE),
           Called("api.get_aircraft_by_country", TRUE),
           Called("api.process_aircraft_data", TRUE),
           Called("Aircraft.cast_to_object_list", TRUE),
           Called("storage.add_multiple_aircraft", TRUE)>>

\* Choice "1": the aircraft over a country are fetched and stored.
CliFetch ==
    \E text \in CountryInputs, raw_data \in RawResults :
        LET country == Strip(text)
            calls   == FetchCalls(country, raw_data)
            asked   == Len(calls) >= 2
            stored  == Len(calls) = 5
            aircraft_list == cast_to_object_list(process_aircraft_data(raw_data.l))
            st == IF stored
                  THEN OfStorage(JSON_add_multiple_aircraft(jfile, jw, aircraft_list),
                                 CSV_add_multiple_aircraft(cfile, cw, aircraft_list))
                  ELSE NoStorage
            exc == IF asked /\ raw_data.exc # "" THEN raw_data.exc
                   ELSE IF Result(st).k = "raise" THEN Result(st).e
                   ELSE ""
        IN  Turn("1", text, calls, st, exc)

\* Choice "2": the n highest stored records are shown; a text that is no
\* integer or an n <= 0 leads back to the menu.
CliTop ==
    \E text \in NumberInputs :
        LET n == PyInt(text)
        IN  IF n.exc # "" \/ n.n <= 0
            THEN Turn("2", text, <<>>, NoStorage, "")
            ELSE LET st == StorageGetAll
                 IN  Turn("2", text,
                          IF Result(st).k = "list" /\ Result(st).l # <<>>
                          THEN <<Called("storage.get_all", TRUE),
                                 Called("get_top_by_altitude", TRUE)>>
                          ELSE <<Called("storage.get_all", FALSE)>>,
                          st,
                          IF Result(st).k = "raise" THEN Result(st).e ELSE "")

\* Choice "3": the stored records of the typed countries are shown.
CliFilterByCountry ==
    \E text \in {"", "RU"} :
        IF Strip(text) = ""
        THEN Turn("3", text, <<>>, NoStorage, "")
        ELSE LET st == StorageGetAll
             IN  Turn("3", text,
                      IF Result(st).k = "list" /\ Result(st).l # <<>>
                      THEN <<Called("storage.get_all", TRUE),
                             Called("filter_by_country", TRUE)>>
                      ELSE <<Called("storage.get_all", FALSE)>>,
                      st,
                      IF Result(st).k = "raise" THEN Result(st).e ELSE "")

\* Choice "4": all stored records and their count are shown.
CliShowAll ==
    LET st == StorageGetAll
    IN  Turn("4", "",
             IF Result(st).k = "list" /\ Result(st).l # <<>>
             THEN <<Called("storage.get_all", TRUE), Called("storage.count", TRUE)>>
             ELSE <<Called("storage.get_all", FALSE)>>,
             st,
             IF Result(st).k = "raise" THEN Result(st).e ELSE "")

\* Choice "5": the stored records are read and shown filtered or sorted.
CliMore ==
    \E sub_choice \in {"1", "2", "3", "4", "9"} :
        LET st == StorageGetAll
        IN  Turn("5", sub_choice,
                 <<Called("storage.get_all",
                          Result(st).k = "list" /\ Result(st).l # <<>>)>>,
                 st,
                 IF Result(st).k = "raise" THEN Result(st).e ELSE "")

\* Any other choice.
CliOther == \E choice \in {"", "7"} : Turn(choice, "", <<>>, NoStorage, "")

NextCli ==
    \/ CliStart
    \/ CliQuit
    \/ CliFetch
    \/ CliTop
    \/ CliFilterByCountry
    \/ CliShowAll
    \/ CliMore
    \/ CliOther

\* user_interaction() with its inputs and the answers of the API.
SpecCli == Init /\ [][NextCli]_vars

(* ------------------------------- claims -------------------------------- *)

\* The last step was a call of the store, not a fault or the construction.
IsCall == last.op \notin {"init", "env"}

\* The stored callsigns of a list of stored mappings, in stored order.
StoredCallsigns(seq) == [i \in 1..Len(seq) |-> Get(seq[i], "callsign", PyNone)]

\* The stored mappings of seq whose callsign is not c.
Others(seq, c) == {seq[i] : i \in {j \in 1..Len(seq) : Get(seq[j], "callsign", PyNone) # c}}

\* The stored mappings of seq whose callsign is c.
Those(seq, c) == {seq[i] : i \in {j \in 1..Len(seq) : Get(seq[j], "callsign", PyNone) = c}}

NoDuplicate(seq) ==
    \A i, j \in 1..Len(seq) :
        i # j => Get(seq[i], "callsign", PyNone) # Get(seq[j], "callsign", PyNone)

\* C1: from an empty store, after any sequence of add_aircraft,
\* add_multiple_aircraft, delete_aircraft and clear calls, no two persisted
\* records of the JSON file, and no two of the CSV file, have the same callsign.
C1_CallsignUnique == NoDuplicate(jfile.items) /\ NoDuplicate(cfile.rows)

\* C1 witness: a list naming one callsign twice has been added to a store
\* that already held records, and the store holds several records.
C1_Witness ==
    /\ last.op = "add_multiple_aircraft"
    /\ Len(last.arg) = 2
    /\ last.arg[1].callsign = last.arg[2].callsign
    /\ last.arg[1] # last.arg[2]
    /\ Len(jprev.items) >= 1
    /\ Len(jfile.items) >= 2
    /\ Len(cfile.rows) >= 2

\* The value a CSV cell holds for field k, as _row_to_aircraft reads it.
CsvValue(row, k) ==
    IF k \in NumericKeys THEN PyNum(PyFloat(row[k]).n)
    ELSE IF k = "on_ground" THEN PyBool(LowerIsTrue(row[k]).n = 1)
    ELSE row[k]

\* The value of field k of record a once it has passed through the CSV row
\* format: a number keeps 2 decimals (6 for longitude and latitude).
CsvRounded(a, k) ==
    IF k \in NumericKeys THEN PyNum(RoundDiv10(a[k].n) * 10) ELSE a[k]

\* add_aircraft(r) was called on stores that held r's callsign.
UpsertOfStored ==
    /\ last.op = "add_aircraft"
    /\ Those(jprev.items, last.arg.callsign) # {}
    /\ Those(cprev.rows, last.arg.callsign) # {}

\* What C2 says of the call apart from the stored fields: True is returned,
\* count() is unchanged and every other stored record is unchanged.
UpsertFrame ==
    /\ jret = RetBool(TRUE)
    /\ cret = RetBool(TRUE)
    /\ JSON_count(jfile) = JSON_count(jprev)
    /\ CSV_count(cfile) = CSV_count(cprev)
    /\ Others(jfile.items, last.arg.callsign) = Others(jprev.items, last.arg.callsign)
    /\ Others(cfile.rows, last.arg.callsign) = Others(cprev.rows, last.arg.callsign)
    /\ Those(jfile.items, last.arg.callsign) # {}
    /\ Those(cfile.rows, last.arg.callsign) # {}
    /\ \A item \in Those(jfile.items, last.arg.callsign) :
           DOMAIN item = FieldNames /\ \A k \in FieldNames : item[k] = last.arg[k]

\* C2 as stated: after add_aircraft(r) on a store that holds r's callsign,
\* True is returned, count() is unchanged, every other record is unchanged,
\* and the stored record of that callsign has all nine fields equal to r's,
\* in the JSON file and in the CSV file.
C2_UpsertExactFields ==
    UpsertOfStored =>
        /\ UpsertFrame
        /\ \A row \in Those(cfile.rows, last.arg.callsign) :
               \A k \in FieldNames : CsvValue(row, k) = last.arg[k]

\* What does hold of the upsert: the same, with the numeric fields of the CSV
\* file being r's numbers rounded to the decimals of the row format (2 for
\* velocity, altitude and vertical_rate, 6 for longitude and latitude).
C2_UpsertReplaces ==
    UpsertOfStored =>
        /\ UpsertFrame
        /\ \A row \in Those(cfile.rows, last.arg.callsign) :
               \A k \in FieldNames : CsvValue(row, k) = CsvRounded(last.arg, k)

\* Such an upsert happens: one replaced a stored record that differed from r in
\* its other eight fields, with another record stored beside it.
C2_Witness ==
    /\ UpsertOfStored
    /\ Len(jprev.items) >= 2
    /\ \A item \in Those(jprev.items, last.arg.callsign) :
           \A k \in FieldNames \ {"callsign"} : item[k] # last.arg[k]
    /\ \A row \in Those(cprev.rows, last.arg.callsign) :
           \A k \in FieldNames \ {"callsign"} : CsvValue(row, k) # CsvRounded(last.arg, k)

\* C3: a second add_aircraft(r) with the same r leaves count() and the whole
\* persisted content as they were after the first call, in both backends.
C3_UpsertIdempotent ==
    [][(last.op = "add_aircraft" /\ last'.op = "add_aircraft" /\ last'.arg = last.arg)
          => /\ jfile' = jfile
             /\ cfile' = cfile
             /\ JSON_count(jfile') = JSON_count(jfile)
             /\ CSV_count(cfile') = CSV_count(cfile)]_vars

\* C3 witness: add_aircraft(r) has run on stores that already held exactly
\* r's stored form beside another record, and changed nothing.
C3_Witness ==
    /\ last.op = "add_aircraft"
    /\ jret = RetBool(TRUE)
    /\ cret = RetBool(TRUE)
    /\ Len(jfile.items) >= 2
    /\ jfile = jprev
    /\ cfile = cprev
    /\ to_dict(last.arg) \in Those(jfile.items, last.arg.callsign)

\* C4: delete_aircraft(c) on a store that holds callsign c returns True,
\* lowers count() by exactly 1 and leaves every other record stored and
\* unchanged; on a store without c it returns False and count() is unchanged.
C4_DeleteCorrect ==
    last.op = "delete_aircraft" =>
        /\ IF Those(jprev.items, last.arg) # {}
           THEN /\ jret = RetBool(TRUE)
                /\ JSON_count(jfile).n = JSON_count(jprev).n - 1
                /\ Those(jfile.items, last.arg) = {}
                /\ Others(jfile.items, last.arg) = Others(jprev.items, last.arg)
           ELSE /\ jret = RetBool(FALSE)
                /\ JSON_count(jfile) = JSON_count(jprev)
        /\ IF Those(cprev.rows, last.arg) # {}
           THEN /\ cret = RetBool(TRUE)
                /\ CSV_count(cfile).n = CSV_count(cprev).n - 1
                /\ Those(cfile.rows, last.arg) = {}
                /\ Others(cfile.rows, last.arg) = Others(cprev.rows, last.arg)
           ELSE /\ cret = RetBool(FALSE)
                /\ CSV_count(cfile) = CSV_count(cprev)

\* C4 witness: a stored callsign was deleted from stores of three records.
C4_Witness ==
    /\ last.op = "delete_aircraft"
    /\ Those(jprev.items, last.arg) # {}
    /\ Those(cprev.rows, last.arg) # {}
    /\ Len(jprev.items) = 3
    /\ Len(jfile.items) = 2
    /\ Len(cfile.rows) = 2

\* C5: add_multiple_aircraft(L) returns len(L): every element counts once,
\* inserted or updated, also a callsign that occurs several times in L.
C5_AddMultipleReturnsLen ==
    last.op = "add_multiple_aircraft" =>
        /\ jret = RetInt(Len(last.arg))
        /\ cret = RetInt(Len(last.arg))

\* C5 witness: a list of two records with one callsign, which the store
\* already held, was added and 2 was returned while count() stayed the same.
C5_Witness ==
    /\ last.op = "add_multiple_aircraft"
    /\ Len(last.arg) = 2
    /\ last.arg[1].callsign = last.arg[2].callsign
    /\ Those(jprev.items, last.arg[1].callsign) # {}
    /\ jret = RetInt(2)
    /\ cret = RetInt(2)
    /\ Len(jfile.items) = Len(jprev.items)

\* The callsigns of a list of Aircraft, in order.
Callsigns(l) == [i \in 1..Len(l) |-> l[i].callsign]

\* C6: get_aircraft(criteria) returns exactly the stored records for which
\* every key of criteria names a stored field whose value equals the criteria
\* value, in stored order (all of them for None or {}), and get_all() returns
\* what get_aircraft(None) returns; in both backends.
C6_CriteriaQuery ==
    /\ last.op = "get_aircraft" =>
          LET kv == last.arg.kv
          IN  /\ jret = RetList(cast_to_object_list(
                            SelectSeq(jfile.items,
                                LAMBDA item : \A i \in 1..Len(kv) :
                                    /\ kv[i].key \in FieldNames
                                    /\ item[kv[i].key] = kv[i].value)))
              /\ cret = CsvRowsToAircraft(
                            SelectSeq(cfile.rows,
                                LAMBDA row : \A i \in 1..Len(kv) :
                                    /\ kv[i].key \in FieldNames
                                    /\ CsvValue(row, kv[i].key) = kv[i].value))
    /\ last.op = "get_all" =>
          /\ jret = JSON_get_aircraft(jfile, NoCriteria)
          /\ cret = CSV_get_aircraft(cfile, NoCriteria)

\* The file could be read as records but not written during the last call.
JsonWriteFails == ~jw /\ jprev.kind = "array"

CsvWriteFails ==
    /\ ~cw
    /\ cprev.kind = "table"
    /\ \A i \in 1..Len(cprev.rows) : \A k \in FieldNames : cprev.rows[i][k] # PyNone

\* What C7 has a call return when the file cannot be written.
FailureResult(op) == IF op = "add_multiple_aircraft" THEN RetInt(0) ELSE RetBool(FALSE)

\* C7: when the backing file cannot be written, add_aircraft returns False,
\* add_multiple_aircraft returns 0, delete_aircraft returns False and clear
\* returns False, in both backends.
C7_WriteFailureReported ==
    last.op \in {"add_aircraft", "add_multiple_aircraft", "delete_aircraft", "clear"} =>
        /\ JsonWriteFails => jret = FailureResult(last.op)
        /\ CsvWriteFails => cret = FailureResult(last.op)

\* The kind of value an operation is documented to return.
ResultKind(op) ==
    CASE op \in {"add_aircraft", "delete_aircraft", "clear"} -> "bool"
      [] op \in {"add_multiple_aircraft", "count"}           -> "int"
      [] OTHER                                               -> "list"

\* C8: whatever the state of the backing file, every public operation of
\* either backend ends by returning a value of its documented type, never in
\* an exception.
C8_NoExceptionEscapes ==
    IsCall => jret.k = ResultKind(last.op) /\ cret.k = ResultKind(last.op)

\* The JSON file is empty, missing, or not a JSON array of record mappings.
JsonMalformed(f) == f.kind \in {"missing", "empty", "garbage", "object", "number"}

\* The CSV file is empty, missing, or has a truncated row.
CsvMalformed(f) ==
    \/ f.kind \in {"missing", "empty"}
    \/ \E i \in 1..Len(f.rows) : \E k \in FieldNames : f.rows[i][k] = PyNone

\* C9: on an empty, missing or malformed backing file count() returns 0 and
\* get_all() returns the empty list.
C9_MalformedIsEmpty ==
    /\ last.op = "count" =>
          /\ JsonMalformed(jprev) => jret = RetInt(0)
          /\ CsvMalformed(cprev) => cret = RetInt(0)
    /\ last.op = "get_all" =>
          /\ JsonMalformed(jprev) => jret = RetList(<<>>)
          /\ CsvMalformed(cprev) => cret = RetList(<<>>)

\* C10: every call of a sequence applied to a JSONStorage and a CSVStorage
\* that both start empty returns the same in both: the same flag, the same
\* count, the same callsigns in the same order.
C10_BackendsAgree ==
    IsCall =>
        /\ jret.k = cret.k
        /\ jret.b = cret.b
        /\ jret.n = cret.n
        /\ jret.e = cret.e
        /\ Callsigns(jret.l) = Callsigns(cret.l)

\* C12: in both backends a record r stored with add_aircraft(r) and read back
\* with get_all() has the same value as r in every field; the CSV texts
\* (2 and 6 decimals, 'True'/'False') give back the original numbers and
\* boolean.
C12_StoreRoundTrip ==
    last.op = "add_aircraft" =>
        /\ \E i \in 1..Len(JSON_get_all(jfile).l) : JSON_get_all(jfile).l[i] = last.arg
        /\ \E i \in 1..Len(CSV_get_all(cfile).l) : CSV_get_all(cfile).l[i] = last.arg

\* What C18 says of the list l returned for n by a store that get_all() reads
\* as stored: min(n, count) of the stored records, highest first, none of the
\* records left out higher than one returned.
TopOf(l, n, stored, count) ==
    /\ Len(l) = (IF n < count THEN n ELSE count)
    /\ \A i, j \in 1..Len(l) : i < j => l[i].altitude.n >= l[j].altitude.n
    /\ \A i \in 1..Len(l) : \E j \in 1..Len(stored) : stored[j] = l[i]
    /\ \A j \in 1..Len(stored) :
           (\A i \in 1..Len(l) : l[i].callsign # stored[j].callsign) =>
               \A i \in 1..Len(l) : l[i].altitude.n >= stored[j].altitude.n

\* C18: for n >= 1, get_top_by_altitude(n) returns min(n, count()) stored
\* records in non-increasing altitude order, each at least as high as every
\* stored record that was not returned, and does not change the store.
C18_TopByAltitude ==
    last.op = "get_top_by_altitude" =>
        /\ jret.k = "list"
        /\ cret.k = "list"
        /\ TopOf(jret.l, last.arg, JSON_get_all(jfile).l, JSON_count(jfile).n)
        /\ TopOf(cret.l, last.arg, CSV_get_all(cfile).l, CSV_count(cfile).n)
        /\ jfile = jprev
        /\ cfile = cprev

\* C18 witness: the two highest of three stored records were asked for, and
\* the record stored first is not the highest.
C18_Witness ==
    /\ last = Call("get_top_by_altitude", 2)
    /\ Len(jfile.items) = 3
    /\ Len(cfile.rows) = 3
    /\ Len(jret.l) = 2
    /\ jret.l[1].callsign # jfile.items[1].callsign
    /\ cret.l[1].callsign # cfile.rows[1].callsign

Absent(f) == f.kind \in {"missing", "nodir"}

\* C20: constructing a store on a path that does not exist creates the
\* directory and a file of zero records (CSV: the header row; JSON: an empty
\* array), so that count() == 0; constructing a store on a path that exists
\* leaves the file unchanged.
C20_CreateIfAbsent ==
    last.op = "__init__" =>
        /\ jret.k # "raise"
        /\ cret.k # "raise"
        /\ Absent(jprev) => jfile = JsonFile("array", <<>>) /\ JSON_count(jfile) = RetInt(0)
        /\ Absent(cprev) => cfile = CsvFile("table", <<>>) /\ CSV_count(cfile) = RetInt(0)
        /\ ~Absent(jprev) => jfile = jprev
        /\ ~Absent(cprev) => cfile = cprev

\* C20 witness: stores were constructed where the JSON file's directory and
\* the CSV file were missing.
C20_Witness ==
    /\ last.op = "__init__"
    /\ jprev.kind = "nodir"
    /\ cprev.kind = "missing"
    /\ jfile.kind = "array"
    /\ cfile.kind = "table"

\* C21: delete_aircraft(callsign) removes at most one record: for every
\* persisted content, also one in which several records carry the callsign,
\* count() after the call is at least count() before the call minus 1.
C21_DeleteAtMostOne ==
    (last.op = "delete_aircraft" /\ jret.k = "bool" /\ cret.k = "bool") =>
        /\ JSON_count(jfile).n >= JSON_count(jprev).n - 1
        /\ CSV_count(cfile).n >= CSV_count(cprev).n - 1

\* The text of a stored cell cannot be coerced to the type of its field.
NotCoercible(key, text) ==
    \/ key \in NumericKeys /\ PyFloat(text).exc # ""
    \/ key = "on_ground" /\ Lower(text.s) \notin {"true", "false"}

\* The rows of the CSV file before the last call that hold, for a key of the
\* criteria kv, a text that cannot be coerced.
NotCoercibleRows(kv) ==
    {i \in 1..Len(cprev.rows) :
        \E p \in 1..Len(kv) : NotCoercible(kv[p].key, cprev.rows[i][kv[p].key])}

\* C22: in CSVStorage.get_aircraft(criteria) a stored row whose text for a
\* numeric or boolean criteria field cannot be coerced does not match: the
\* call returns normally and the row is not in the result.
C22_NotCoercibleIsNoMatch ==
    (last.op = "get_aircraft" /\ ~last.arg.none /\ cprev.kind = "table"
        /\ NotCoercibleRows(last.arg.kv) # {}) =>
        /\ cret.k = "list"
        /\ \A i \in NotCoercibleRows(last.arg.kv) :
               \A j \in 1..Len(cret.l) : cret.l[j].callsign # cprev.rows[i]["callsign"]

\* The last call was an upsert of the one record r: add_aircraft(r) or
\* add_multiple_aircraft([r]).
UpsertedRecord ==
    IF last.op = "add_aircraft" THEN last.arg
    ELSE IF last.op = "add_multiple_aircraft" /\ Len(last.arg) = 1 THEN last.arg[1]
    ELSE PyNone

\* What C24 says of an upsert of callsign c that took the stored sequence
\* before to the sequence after: the first record of c is the one replaced
\* (every other record is as before); without a record of c one is appended.
UpsertInPlace(before, after, c) ==
    LET i == FirstIndex(HasCallsign(before, c))
    IN  IF i > 0
        THEN /\ Len(after) = Len(before)
             /\ \A j \in 1..Len(before) : j # i => after[j] = before[j]
             /\ Get(after[i], "callsign", PyNone) = c
        ELSE /\ Len(after) = Len(before) + 1
             /\ SubSeq(after, 1, Len(before)) = before
             /\ Get(after[Len(after)], "callsign", PyNone) = c

\* C24: the store keeps insertion order: an upsert of a stored callsign
\* updates the first matching record in place and leaves the sequence of
\* callsigns unchanged, an upsert of a new callsign appends it last, and
\* delete_aircraft keeps the relative order of the remaining records.
C24_PositionStable ==
    /\ (UpsertedRecord # PyNone /\ jret.k \in {"bool", "int"}) =>
           UpsertInPlace(jprev.items, jfile.items, UpsertedRecord.callsign)
    /\ (UpsertedRecord # PyNone /\ cret.k \in {"bool", "int"}) =>
           UpsertInPlace(cprev.rows, cfile.rows, UpsertedRecord.callsign)
    /\ (last.op = "delete_aircraft" /\ jret.k = "bool") =>
           jfile.items = SelectSeq(jprev.items,
                                   LAMBDA item : Get(item, "callsign", PyNone) # last.arg)
    /\ (last.op = "delete_aircraft" /\ cret.k = "bool") =>
           cfile.rows = SelectSeq(cprev.rows,
                                  LAMBDA row : Get(row, "callsign", PyNone) # last.arg)

\* The operations C27 names as reading only.
ReadOperations ==
    {"count", "get_all", "get_aircraft", "get_aircraft_by_country", "get_top_by_altitude"}

\* C27: count, get_all, get_aircraft, get_aircraft_by_country and
\* get_top_by_altitude, and delete_aircraft of a callsign that is not stored,
\* leave the persisted content of both files unchanged.
C27_ReadsChangeNothing ==
    /\ last.op \in ReadOperations => jfile = jprev /\ cfile = cprev
    /\ last.op = "delete_aircraft" =>
          /\ Those(jprev.items, last.arg) = {} => jfile = jprev
          /\ Those(cprev.rows, last.arg) = {} => cfile = cprev

\* C27 witness: delete_aircraft of a callsign that is not stored ran on
\* stores that held several records, and returned False.
C27_Witness ==
    /\ last.op = "delete_aircraft"
    /\ Len(jprev.items) >= 2
    /\ Len(cprev.rows) >= 2
    /\ Those(jprev.items, last.arg) = {}
    /\ Those(cprev.rows, last.arg) = {}
    /\ jret = RetBool(FALSE)
    /\ cret = RetBool(FALSE)

\* Both callers have returned from add_aircraft.
BothDone == \A c \in 1..2 : callers[c].pc = "done"

\* The caller that saved first, and the one that saved last.
FirstSaver == CHOOSE c \in 1..2 : callers[c].order = 1
LastSaver == CHOOSE c \in 1..2 : callers[c].order = 2

\* The two callers added distinct callsigns, neither of them stored when the
\* first load took place.
DistinctNewCallsigns ==
    LET e == CHOOSE c \in 1..2 : callers[c].early
    IN  /\ callers[1].aircraft.callsign # callers[2].aircraft.callsign
        /\ \A c \in 1..2 :
              /\ Those(callers[e].j.items, callers[c].aircraft.callsign) = {}
              /\ Those(callers[e].c.rows, callers[c].aircraft.callsign) = {}

\* Both callers loaded before either saved.
BothLoadedFirst == \A c \in 1..2 : callers[c].early

\* C23: add_aircraft is not atomic across callers: when two callers add
\* distinct new callsigns on the same path and both load before either
\* saves, both return True and the file holds only the record of the caller
\* that saved last; when one runs after the other, both records are stored.
C23_LostUpdate ==
    (BothDone /\ DistinctNewCallsigns) =>
        LET e      == CHOOSE c \in 1..2 : callers[c].early
            first  == callers[FirstSaver].aircraft.callsign
            second == callers[LastSaver].aircraft.callsign
        IN  /\ \A c \in 1..2 : callers[c].jret = RetBool(TRUE) /\ callers[c].cret = RetBool(TRUE)
            /\ BothLoadedFirst =>
                  /\ StoredCallsigns(jfile.items)
                        = Append(StoredCallsigns(callers[e].j.items), second)
                  /\ StoredCallsigns(cfile.rows)
                        = Append(StoredCallsigns(callers[e].c.rows), second)
            /\ ~BothLoadedFirst =>
                  /\ StoredCallsigns(jfile.items)
                        = StoredCallsigns(callers[e].j.items) \o <<first, second>>
                  /\ StoredCallsigns(cfile.rows)
                        = StoredCallsigns(callers[e].c.rows) \o <<first, second>>

\* C23 witness: both callers loaded a store of one record before either
\* saved, both returned True, and the record of the first saver is not in
\* the files.
C23_Witness ==
    /\ BothDone
    /\ DistinctNewCallsigns
    /\ BothLoadedFirst
    /\ \A c \in 1..2 : callers[c].jret = RetBool(TRUE) /\ callers[c].cret = RetBool(TRUE)
    /\ Len(jfile.items) = 2
    /\ Len(cfile.rows) = 2
    /\ Those(jfile.items, callers[FirstSaver].aircraft.callsign) = {}
    /\ Those(cfile.rows, callers[FirstSaver].aircraft.callsign) = {}

\* The set of the elements of a sequence.
Range(seq) == {seq[i] : i \in 1..Len(seq)}

\* The last record of list l that has callsign c.
LastOf(l, c) ==
    l[CHOOSE i \in 1..Len(l) :
          l[i].callsign = c /\ \A j \in (i + 1)..Len(l) : l[j].callsign # c]

\* C28: after add_multiple_aircraft(L) on a store whose callsign set is S the
\* callsign set is S united with the callsigns of L and count() is the size
\* of that union; records built from empty or non-string callsigns share the
\* key "Unknown"; for a callsign that occurs several times in L the stored
\* fields are those of its last occurrence.
C28_BatchNetEffect ==
    (last.op = "add_multiple_aircraft" /\ jret.k = "int" /\ cret.k = "int") =>
        LET L == last.arg
            J == Range(StoredCallsigns(jprev.items)) \cup Range(Callsigns(L))
            C == Range(StoredCallsigns(cprev.rows)) \cup Range(Callsigns(L))
        IN  /\ Range(StoredCallsigns(jfile.items)) = J
            /\ Range(StoredCallsigns(cfile.rows)) = C
            /\ JSON_count(jfile) = RetInt(Cardinality(J))
            /\ CSV_count(cfile) = RetInt(Cardinality(C))
            /\ \A i \in 1..Len(L) :
                   L[i].icao24 \in {PyStr("u1"), PyStr("u2")} =>
                       L[i].callsign = PyStr("Unknown")
            /\ \A c \in Range(Callsigns(L)) :
                   /\ \A item \in Those(jfile.items, c) :
                          \A k \in FieldNames : item[k] = LastOf(L, c)[k]
                   /\ \A row \in Those(cfile.rows, c) :
                          \A k \in FieldNames : CsvValue(row, k) = LastOf(L, c)[k]

\* The callsigns of the records get_all() returns on the two files.
JsonListed(f) == Range(Callsigns(JSON_get_all(f).l))
CsvListed(f) == Range(Callsigns(CSV_get_all(f).l))

\* The last call may remove the record of callsign c: clear, or
\* delete_aircraft(c).
MayRemove(c) == last.op = "clear" \/ (last.op = "delete_aircraft" /\ last.arg = c)

\* C30: once add_aircraft(r) has returned True, get_all() returns a record
\* with r's callsign, and it goes on doing so after every later operation
\* (constructing the store again on the path included) that is neither
\* delete_aircraft of that callsign nor clear; no write fails.
C30_Durable ==
    /\ (last.op = "add_aircraft" /\ jret = RetBool(TRUE)) =>
           last.arg.callsign \in JsonListed(jfile)
    /\ (last.op = "add_aircraft" /\ cret = RetBool(TRUE)) =>
           last.arg.callsign \in CsvListed(cfile)
    /\ \A c \in JsonListed(jprev) : ~MayRemove(c) => c \in JsonListed(jfile)
    /\ \A c \in CsvListed(cprev) : ~MayRemove(c) => c \in CsvListed(cfile)

\* The geocoding result of the call is empty or its bounding box has fewer
\* than four entries.
GeoNotFound ==
    \/ api.data.shape = "null"
    \/ api.data.len = 0
    \/ api.data.shape = "array" /\ api.data.box = NoBox
    \/ api.data.shape = "array" /\ api.data.box # NoBox /\ Len(api.data.box) < 4

\* C25: the flight-state service is asked only after the geocoding service
\* was asked and answered a result with a bounding box of four entries, which
\* are what it is asked for; when the geocoding result is empty or its box
\* has fewer than four entries, no flight-state request is made, aeroplanes
\* is {"states": []} and get_aircraft_by_country returns [].
C25_GeocodingFirst ==
    /\ \A i \in 1..Len(api.log) :
           api.log[i].url = "opensky" =>
               /\ i = 2
               /\ api.log[1] = Request("nominatim", <<api.country>>)
               /\ api.data.shape = "array"
               /\ api.data.len > 0
               /\ api.data.box # NoBox
               /\ Len(api.data.box) >= 4
               /\ api.log[i].params = SubSeq(api.data.box, 1, 4)
    /\ (api.pc = "idle" /\ api.method # "" /\ GeoNotFound) =>
           /\ \A i \in 1..Len(api.log) : api.log[i].url # "opensky"
           /\ api.exc = ""
           /\ api.aeroplanes = EmptyStates
           /\ api.method = "get_aircraft_by_country" => api.ret = JsonArray(0, NoBox)

\* C25 witness: get_aircraft_by_country got a bounding box of three entries
\* and returned [] without a flight-state request.
C25_Witness ==
    /\ api.pc = "idle"
    /\ api.method = "get_aircraft_by_country"
    /\ api.data.shape = "array"
    /\ api.data.box # NoBox
    /\ Len(api.data.box) = 3
    /\ Len(api.log) = 1
    /\ api.aeroplanes = EmptyStates
    /\ api.ret = JsonArray(0, NoBox)

\* The session has made a turn of its loop.
Turned == last.op = "user_interaction"

\* The turn called f.
TurnCalled(f) == \E i \in 1..Len(cli.calls) : cli.calls[i].f = f

\* C26: in the menu loop the store is modified only by choice 1;
\* add_multiple_aircraft is called only after the typed country passed
\* validate_country and the API gave a non-empty result; a country that does
\* not pass leads back to the menu without a call of the API; a top-N
\* request with a text that is no integer or with n <= 0 leads back to the
\* menu without a read of the store.
C26_WriteGuard ==
    Turned =>
        /\ cli.choice # "1" =>
              /\ jfile = jprev
              /\ cfile = cprev
              /\ ~TurnCalled("storage.add_multiple_aircraft")
        /\ \A i \in 1..Len(cli.calls) :
              cli.calls[i].f = "storage.add_multiple_aircraft" =>
                  /\ cli.choice = "1"
                  /\ i > 2
                  /\ cli.calls[1] = Called("validate_country", TRUE)
                  /\ cli.calls[2] = Called("api.get_aircraft_by_country", TRUE)
        /\ \A i \in 1..Len(cli.calls) :
              cli.calls[i].f = "api.get_aircraft_by_country" =>
                  i = 2 /\ cli.calls[1] = Called("validate_country", TRUE)
        /\ (cli.choice = "1" /\ cli.calls[1] = Called("validate_country", FALSE)) =>
              /\ cli.calls = <<Called("validate_country", FALSE)>>
              /\ cli.pc = "menu"
              /\ jfile = jprev /\ cfile = cprev
        /\ (cli.choice = "2" /\ (PyInt(cli.input).exc # "" \/ PyInt(cli.input).n <= 0)) =>
              /\ cli.calls = <<>>
              /\ jret = NoRet /\ cret = NoRet
              /\ cli.pc = "menu"

\* C26 witness: a turn of choice 1 with a valid country and a non-empty
\* answer of the API changed the CSV store, which then held two records.
C26_Witness ==
    /\ Turned
    /\ cli.choice = "1"
    /\ TurnCalled("storage.add_multiple_aircraft")
    /\ cli.format = "csv"
    /\ cfile # cprev
    /\ Len(cfile.rows) >= 2

(* ----------------------- claims on the Aircraft object ----------------- *)

\* C11: for every record r built by the constructor, from_dict(r.to_dict())
\* is built and has the same value as r in each of the nine fields.
C11_MappingRoundTrip ==
    rlast.op = "round_trip" =>
        /\ rret.exc = ""
        /\ \A k \in FieldNames : rret.v[k] = ra[k]

\* The constructor was given an empty or invalid callsign: "", None, or a
\* value that is no string.
InvalidCallsign(v) == v.t # "str" \/ v.s = ""

\* C13: whatever is given as callsign (any string, whitespace-only and empty
\* ones included, None, a non-string), the constructed record's callsign is a
\* non-empty string, and it is "Unknown" for empty or invalid input.
C13_CallsignNonEmpty ==
    (rlast.op = "Aircraft" /\ rret.exc = "") =>
        /\ ra.callsign.t = "str"
        /\ ra.callsign.s # ""
        /\ InvalidCallsign(rlast.arg.callsign) => ra.callsign = PyStr("Unknown")

\* C14: in every state of a record, after construction from any inputs and
\* any sequence of velocity and altitude setter calls, velocity >= 0,
\* altitude >= -1000, and the callsign is the one fixed at construction.
C14_RecordInvariant ==
    ra # PyNone =>
        /\ ra.velocity.t = "num" /\ ra.velocity.n >= 0
        /\ ra.altitude.t = "num" /\ ra.altitude.n >= -1000000
        /\ ra.callsign = rborn.callsign

\* C14 witness: the altitude setter was given -5000 on a record whose
\* velocity had been set before, and it changed the record.
C14_Witness ==
    /\ rlast = Call("altitude", PyNum(-5000000))
    /\ rret.exc = ""
    /\ ra.altitude # rborn.altitude
    /\ ra.velocity # rborn.velocity

\* The value given for a numeric field to the last constructor call (None
\* for a key that from_dict's mapping lacks).
GivenNumber(key) ==
    IF rlast.op = "from_dict" THEN Get(rlast.arg, key, PyNone) ELSE rlast.arg[key]

\* What C15 has the constructor store for the given value v with floor lo:
\* max(lo, v) for a number, 0.0 for a missing, None or non-numeric value.
Degraded(v, lo) ==
    IF v.t = "num" THEN PyNum(IF v.n > lo THEN v.n ELSE lo) ELSE PyNum(0)

\* C15: constructing a record, directly or via from_dict, never fails on
\* its velocity or altitude: a missing, None or non-numeric value gives 0.0,
\* a numeric velocity v gives max(0, v), a numeric altitude a max(-1000, a).
C15_NumericValidationDegrades ==
    rlast.op \in {"Aircraft", "from_dict"} =>
        /\ rret.exc = ""
        /\ rret.v.velocity = Degraded(GivenNumber("velocity"), 0)
        /\ rret.v.altitude = Degraded(GivenNumber("altitude"), -1000000)

\* The last call compared the record with another record.
ComparedWithRecord == rlast.op \in Methods /\ IsAircraft(rlast.arg)

\* The last call compared the record with a value that is no record.
ComparedWithOther == rlast.op \in Methods /\ ~IsAircraft(rlast.arg)

\* C16 as stated: a == b iff the callsigns are identical, the countries are
\* identical, the velocities differ by no more than 0.1 and the altitudes by
\* no more than 1.0; a == x is False for every x that is no record.
C16_EqualityWithinTolerance ==
    rlast.op = "__eq__" =>
        /\ ComparedWithOther => rret.v = PyBool(FALSE)
        /\ ComparedWithRecord =>
               rret.v = PyBool(/\ ra.callsign = rlast.arg.callsign
                               /\ ra.origin_country = rlast.arg.origin_country
                               /\ Abs(ra.velocity.n - rlast.arg.velocity.n) <= 100
                               /\ Abs(ra.altitude.n - rlast.arg.altitude.n) <= 1000)

\* C16 amended: the same with the velocities differing by less than 0.1 and
\* the altitudes by less than 1.0.
C16_EqualityBelowTolerance ==
    rlast.op = "__eq__" =>
        /\ ComparedWithOther => rret.v = PyBool(FALSE)
        /\ ComparedWithRecord =>
               rret.v = PyBool(/\ ra.callsign = rlast.arg.callsign
                               /\ ra.origin_country = rlast.arg.origin_country
                               /\ Abs(ra.velocity.n - rlast.arg.velocity.n) < 100
                               /\ Abs(ra.altitude.n - rlast.arg.altitude.n) < 1000)

\* C16 witness: a record was compared with one of the same callsign, country
\* and velocity whose altitude is exactly 1.0 higher, and found unequal.
C16_Witness ==
    /\ rlast.op = "__eq__"
    /\ ComparedWithRecord
    /\ ra.callsign = rlast.arg.callsign
    /\ ra.origin_country = rlast.arg.origin_country
    /\ ra.velocity = rlast.arg.velocity
    /\ rlast.arg.altitude.n - ra.altitude.n = 1000
    /\ rret.v = PyBool(FALSE)

\* The records among the operands, and the record itself.
Records == {Operands[i] : i \in {j \in 1..Len(Operands) : IsAircraft(Operands[j])}} \cup {ra}

C29_EqualityIsEquivalence ==
    (rlast.op = "__eq__" /\ ComparedWithRecord) =>
        LET a == ra
            b == rlast.arg
            T == PyBool(TRUE)
        IN  /\ rret.v = __eq__(a, b)
            /\ __eq__(a, a) = T
            /\ rret.v = T => __eq__(b, a) = T
            /\ \A c \in Records : (rret.v = T /\ __eq__(b, c) = T) => __eq__(a, c) = T
            /\ rret.v = T => (__lt__(a, b) # T /\ __gt__(a, b) # T)

====
